---- MODULE Spec2Model ----
(***************************************************************************)
(* A model of the QALAS relaxometry workflow of update.py: the grouping of *)
(* the QC metadata files by session, the two-pass selection of the best    *)
(* QALAS scan, and the state machine of main() over the tracking log and   *)
(* the reprocess log.                                                      *)
(*                                                                         *)
(* Python values are modelled as follows.  Strings are TLA+ strings, read  *)
(* with Len, SubSeq and \o only.  A value that may be None is a sequence   *)
(* of length at most one: << >> is None and << v >> is the value v.  A     *)
(* list whose order the code relies on is a sequence; a list the code      *)
(* writes through list(set(...)) is a set.                                 *)
(***************************************************************************)
EXTENDS Integers, Sequences, FiniteSets, TLC

VARIABLES
    \* the dicom bucket
    bucket_jsons,         \* the keys ending in _mripcqc_info.json the bucket lists
    json_content,         \* the QC metadata files of the dicom bucket: key -> list of scans
    \* base_directory_for_proc
    tracking_log_file,    \* the content of the newest logs/tracking_log_*.json ({} if none)
    reproc_log_exists,    \* whether reproc_log.json exists
    reproc_log_file,      \* the five lists of reproc_log.json
    session_dir,          \* working_dir/<session>: the folders it holds ({} if it is absent)
    qc_jsons_files,       \* working_dir/<session>/qc_jsons: the jsons it holds
    \* main(): its position and its local variables
    pc,                   \* "idle", "session", "save_tracking", "save_reproc", "done", "raised"
    stage,                \* the step of the loop body of lines 797-921 that comes next
    batch_limit,
    jsons_dict,           \* [order: the session keys as first listed, files: key -> jsons]
    tracking_log_data,
    to_reprocess,
    new_archive_available,
    qalas_in_qc_but_not_archive,
    no_niftis_to_upload,
    missing_archive,
    reprocess_attempted,
    sessions_to_skip,
    sessions_to_evaluate, \* the keys of the dict, in insertion order
    idx,                  \* the position of temp_session in sessions_to_evaluate
    downloaded_jsons,     \* the paths glob returned for the session's qc_jsons folder
    best_qalas_info,      \* None, or the dict of the selected scan
    qc_or_other_missing,  \* the flag returned by the selection
    qalas_folders,        \* the number of folders unpack_qalas_from_targz returned
    output_info,          \* what convert_single_tar returned (the fields main reads)
    \* observations of the run, for the properties
    runs,                 \* the number of runs started
    env_changes,          \* the number of changes made by the operator and the scanner sites
    start_tracking,       \* the tracking log as read at line 718
    start_reproc,         \* the reprocess log as read at lines 727-739
    start_session_dir,    \* the working directories as the run found them
    examined,             \* the sessions the loop of lines 753-788 looked at
    skipped,              \* the sessions that took the continue of line 760
    events,               \* per session, the steps main performed for it in this run
    outcome,              \* per session, how its processing ended in this run
    prev_succeeded        \* the sessions the previous run uploaded, if nothing changed since

bucket_vars == << bucket_jsons, json_content >>
disk_vars == << tracking_log_file, reproc_log_exists, reproc_log_file, session_dir,
                qc_jsons_files >>
list_vars == << to_reprocess, new_archive_available, qalas_in_qc_but_not_archive,
                no_niftis_to_upload, missing_archive, reprocess_attempted >>
start_vars == << batch_limit, jsons_dict, sessions_to_skip, sessions_to_evaluate,
                 start_tracking, start_reproc, start_session_dir, examined, skipped,
                 runs >>
sel_vars == << downloaded_jsons, best_qalas_info, qc_or_other_missing >>
conv_vars == << qalas_folders, output_info >>

\* the state of process_new_subjects, the workflow of create_relaxometry_maps.py
VARIABLES
    dicom_bucket,         \* the keys of the input bucket (the dicom archives)
    archive_kind,         \* key -> what the archive holds (see ArchiveKinds)
    derivatives_bucket,   \* the tar names whose outputs push_to_s3 uploaded
    tracking_log_csv,     \* the tar_name column of the most recent tracking log
    targz_paths,          \* the local paths grab_from_s3 returned
    output_infos,         \* the list output_info of process_new_subjects
    upload_status,
    legacy_pc,            \* "idle", "convert", "upload", "log", "clean_up"
    legacy_runs,
    pushed                \* the tar names push_to_s3 returned True for in this run

legacy_vars == << dicom_bucket, archive_kind, derivatives_bucket, tracking_log_csv,
                  targz_paths, output_infos, upload_status, legacy_pc, legacy_runs, pushed >>

\* the state of main() of update.py and of its files
update_vars == << bucket_vars, disk_vars, pc, stage, tracking_log_data, list_vars, start_vars,
                  idx, sel_vars, conv_vars, env_changes, events, outcome, prev_succeeded >>

\* the directory tree find_terminal_folders is called on, its argument and its result
VARIABLES
    os_listdir,           \* directory -> [dirs: the names of its folders, files: how many files]
    ftf_path,             \* the path argument of the call
    ftf_folders           \* None before the call, Some(the set returned) after it

tree_vars == << os_listdir, ftf_path, ftf_folders >>

\* the variables main() of update.py does not touch
other_vars == << legacy_vars, tree_vars >>

vars == << update_vars, legacy_vars, tree_vars >>

\* no call of find_terminal_folders is followed
TreeIdle ==
    /\ os_listdir = << >>
    /\ ftf_path = << >>
    /\ ftf_folders = << >>

\* process_new_subjects is not running and has never run
LegacyIdle ==
    /\ dicom_bucket = {}
    /\ archive_kind = << >>
    /\ derivatives_bucket = {}
    /\ tracking_log_csv = << >>
    /\ targz_paths = << >>
    /\ output_infos = << >>
    /\ upload_status = << >>
    /\ legacy_pc = "idle"
    /\ legacy_runs = 0
    /\ pushed = {}

-----------------------------------------------------------------------------
(* Bounds of the model *)

\* the number of qMRI/other scans drawn for one session in SpecSel
MaxRecs == 2
\* QC scores (QU_motion, aqc_motion, brain_SNR) are drawn from 1..MaxScore
MaxScore == 2
\* the number of times main() is started in Spec
MaxRuns == 3
\* the number of changes to the bucket listing, to_reprocess and the working directory
MaxEnvChanges == 2
\* --custom_processing_batch_size is drawn from 0..MaxBatch
MaxBatch == 2
\* unpack_qalas_from_targz returns 0..MaxFolders matching folders
MaxFolders == 2

-----------------------------------------------------------------------------
(* Python values *)

None == << >>
Some(v) == << v >>
IsNone(x) == x = << >>
Val(x) == x[1]

Last(s) == s[Len(s)]

\* set -> some list of its elements (the order json/list(set()) gives is arbitrary
\* and immaterial to every use below)
RECURSIVE SetToSeq(_)
SetToSeq(S) ==
    IF S = {} THEN << >>
    ELSE LET x == CHOOSE y \in S : TRUE IN << x >> \o SetToSeq(S \ {x})

Range(s) == { s[i] : i \in 1..Len(s) }

\* x in list
In(x, s) == \E i \in 1..Len(s) : s[i] = x

\* list.remove(x): drops the first occurrence only
RECURSIVE ListRemove(_, _)
ListRemove(s, x) ==
    IF s = << >> THEN << >>
    ELSE IF Head(s) = x THEN Tail(s)
    ELSE << Head(s) >> \o ListRemove(Tail(s), x)

\* str.split(sep) for a one-character separator
RECURSIVE SplitFrom(_, _, _, _)
SplitFrom(s, sep, i, start) ==
    IF i > Len(s) THEN << SubSeq(s, start, Len(s)) >>
    ELSE IF SubSeq(s, i, i) = sep
         THEN << SubSeq(s, start, i - 1) >> \o SplitFrom(s, sep, i + 1, i + 1)
         ELSE SplitFrom(s, sep, i + 1, start)

Split(s, sep) == SplitFrom(s, sep, 1, 1)

\* sep.join(list)
RECURSIVE Join(_, _)
Join(sep, parts) ==
    IF parts = << >> THEN ""
    ELSE IF Len(parts) = 1 THEN parts[1]
    ELSE parts[1] \o sep \o Join(sep, Tail(parts))

\* str.replace(old, new): every occurrence, left to right
RECURSIVE ReplaceFrom(_, _, _, _)
ReplaceFrom(s, old, new, i) ==
    IF i > Len(s) THEN ""
    ELSE IF i + Len(old) - 1 <= Len(s) /\ SubSeq(s, i, i + Len(old) - 1) = old
         THEN new \o ReplaceFrom(s, old, new, i + Len(old))
         ELSE SubSeq(s, i, i) \o ReplaceFrom(s, old, new, i + 1)

Replace(s, old, new) == ReplaceFrom(s, old, new, 1)

\* list[0:n]
Take(s, n) == SubSeq(s, 1, IF Len(s) < n THEN Len(s) ELSE n)

-----------------------------------------------------------------------------
(* The QC metadata files and their names *)

\* os.path.join(jsons_base_dir, key): the local path of a downloaded QC json, kept as
\* its folder and the bucket key joined to it (the string is dir/key)
JsonsBaseDir(temp_session) == "working_dir/" \o temp_session \o "/qc_jsons"
LocalPath(temp_session, key) == [dir |-> JsonsBaseDir(temp_session), key |-> key]

\* path.split('/')[-1]
Basename(path) == Last(Split(path.key, "/"))

\* the content read at lines 210-213: json.load(f)[0], a dict being wrapped in a list
FileContent(temp_json) == json_content[temp_json.key]

\* the (scan, json) pairs in the order the two nested loops of the selection visit them
RECURSIVE ScansOf(_)
ScansOf(jsons) ==
    IF jsons = << >> THEN << >>
    ELSE LET content == FileContent(Head(jsons))
         IN [i \in 1..Len(content) |-> [scan |-> content[i], json |-> Head(jsons)]]
            \o ScansOf(Tail(jsons))

-----------------------------------------------------------------------------
(* update_best_qalas_info_dict and the two selection passes *)

update_best_qalas_info_dict(scan_dict, json_name) ==
    [QU_motion |-> scan_dict.QU_motion,
     aqc_motion |-> scan_dict.aqc_motion,
     SeriesInstanceUID |-> scan_dict.SeriesInstanceUID,
     StudyInstanceUID |-> scan_dict.StudyInstanceUID,
     SubjID |-> scan_dict.SubjID,
     json_for_unpacked_archive |-> json_name,
     archive_to_download |->
         Basename([dir |-> json_name.dir,
                   key |-> Replace(json_name.key, "_mripcqc_info.json", ".tar.gz")])]

\* np.inf and -np.inf as the initial best scores: "no best score yet"
np_inf == << >>
\* v < best, v == best, v > best against a best score that may still be +-inf
LtBest(v, best) == best = np_inf \/ v < Val(best)
EqBest(v, best) == best # np_inf /\ v = Val(best)
GtBest(v, best) == best = np_inf \/ v > Val(best)

\* the local variables of a selection pass before its loop
BestInit == [info |-> None, qu |-> np_inf, aqc |-> np_inf, snr |-> np_inf]

\* the assignments made when temp_scan becomes the best scan
TakeScan(temp_scan, temp_json) ==
    [info |-> Some(update_best_qalas_info_dict(temp_scan, temp_json)),
     qu |-> temp_scan.QU_motion,
     aqc |-> temp_scan.aqc_motion,
     snr |-> temp_scan.brain_SNR]

\* line 223: a field the first pass needs is None
with_qu_missing(temp_scan) ==
    \/ IsNone(temp_scan.QU_motion)
    \/ IsNone(temp_scan.aqc_motion)
    \/ IsNone(temp_scan.HBCD_compliant)
    \/ IsNone(temp_scan.brain_SNR)

\* a mutant of with_qu_rank: the aqc_motion tie-break prefers the higher score
with_qu_rank_mutant(best, temp_scan, temp_json) ==
    IF temp_scan.HBCD_compliant # Some("Yes") THEN best
    ELSE IF LtBest(Val(temp_scan.QU_motion), best.qu) THEN TakeScan(temp_scan, temp_json)
    ELSE IF EqBest(Val(temp_scan.QU_motion), best.qu)
         THEN IF GtBest(Val(temp_scan.aqc_motion), best.aqc)
              THEN TakeScan(temp_scan, temp_json)
              ELSE best
         ELSE best

\* lines 228-245: the comparison of one complete qMRI scan with the best so far
with_qu_rank(best, temp_scan, temp_json) ==
    IF temp_scan.HBCD_compliant # Some("Yes") THEN best
    ELSE IF LtBest(Val(temp_scan.QU_motion), best.qu) THEN TakeScan(temp_scan, temp_json)
    ELSE IF EqBest(Val(temp_scan.QU_motion), best.qu)
         THEN IF LtBest(Val(temp_scan.aqc_motion), best.aqc)
              THEN TakeScan(temp_scan, temp_json)
              ELSE IF EqBest(Val(temp_scan.aqc_motion), best.aqc)
                   THEN IF GtBest(Val(temp_scan.brain_SNR), best.snr)
                        THEN TakeScan(temp_scan, temp_json)
                        ELSE best
                   ELSE best
         ELSE best

\* lines 227, 246-249: an ordering comparison with None raises and is caught
with_qu_raises(temp_scan) ==
    /\ temp_scan.HBCD_compliant = Some("Yes")
    /\ \/ IsNone(temp_scan.QU_motion)
       \/ IsNone(temp_scan.aqc_motion)
       \/ IsNone(temp_scan.brain_SNR)

\* a mutant of with_qu_loop: a scan with a missing field is passed over and the loop
\* goes on with the next scan
RECURSIVE with_qu_loop_passing_over(_, _, _)
with_qu_loop_passing_over(items, i, best) ==
    IF i > Len(items) THEN [info |-> best.info, missing |-> FALSE]
    ELSE LET temp_scan == items[i].scan
         IN IF temp_scan.SeriesType # "qMRI" THEN with_qu_loop_passing_over(items, i + 1, best)
            ELSE IF with_qu_missing(temp_scan)
                 THEN with_qu_loop_passing_over(items, i + 1, best)
            ELSE IF with_qu_raises(temp_scan) THEN [info |-> None, missing |-> TRUE]
            ELSE with_qu_loop_passing_over(items, i + 1,
                                           with_qu_rank(best, temp_scan, items[i].json))

RECURSIVE with_qu_loop(_, _, _)
with_qu_loop(items, i, best) ==
    IF i > Len(items) THEN [info |-> best.info, missing |-> FALSE]
    ELSE LET temp_scan == items[i].scan
         IN IF temp_scan.SeriesType # "qMRI" THEN with_qu_loop(items, i + 1, best)
            ELSE IF with_qu_missing(temp_scan) THEN [info |-> None, missing |-> TRUE]
            ELSE IF with_qu_raises(temp_scan) THEN [info |-> None, missing |-> TRUE]
            ELSE with_qu_loop(items, i + 1, with_qu_rank(best, temp_scan, items[i].json))

\* returns (best_qalas_info, qc_or_other_missing) as [info, missing]
qalas_selection_with_qu_motion(jsons) == with_qu_loop(ScansOf(jsons), 1, BestInit)

\* a mutant of without_qu_missing: the aqc_motion field is not checked
without_qu_missing_mutant(temp_scan) ==
    \/ IsNone(temp_scan.HBCD_compliant)
    \/ IsNone(temp_scan.brain_SNR)

\* line 267: a field the relaxed pass needs is None
without_qu_missing(temp_scan) ==
    \/ IsNone(temp_scan.aqc_motion)
    \/ IsNone(temp_scan.HBCD_compliant)
    \/ IsNone(temp_scan.brain_SNR)

\* a mutant of without_qu_rank: an equal aqc_motion never replaces the best scan
without_qu_rank_mutant(best, temp_scan, temp_json) ==
    IF temp_scan.HBCD_compliant # Some("Yes") THEN best
    ELSE IF LtBest(Val(temp_scan.aqc_motion), best.aqc) THEN TakeScan(temp_scan, temp_json)
    ELSE best

\* lines 273-282
without_qu_rank(best, temp_scan, temp_json) ==
    IF temp_scan.HBCD_compliant # Some("Yes") THEN best
    ELSE IF LtBest(Val(temp_scan.aqc_motion), best.aqc) THEN TakeScan(temp_scan, temp_json)
    ELSE IF EqBest(Val(temp_scan.aqc_motion), best.aqc)
         THEN IF GtBest(Val(temp_scan.brain_SNR), best.snr)
              THEN TakeScan(temp_scan, temp_json)
              ELSE best
         ELSE best

\* lines 271, 283-286
without_qu_raises(temp_scan) ==
    /\ temp_scan.HBCD_compliant = Some("Yes")
    /\ \/ IsNone(temp_scan.aqc_motion)
       \/ IsNone(temp_scan.brain_SNR)

RECURSIVE without_qu_loop(_, _, _)
without_qu_loop(items, i, best) ==
    IF i > Len(items) THEN [info |-> best.info, missing |-> FALSE]
    ELSE LET temp_scan == items[i].scan
         IN IF temp_scan.SeriesType # "qMRI" THEN without_qu_loop(items, i + 1, best)
            ELSE IF without_qu_missing(temp_scan) THEN [info |-> None, missing |-> TRUE]
            ELSE IF without_qu_raises(temp_scan) THEN [info |-> None, missing |-> TRUE]
            ELSE without_qu_loop(items, i + 1,
                                 without_qu_rank(best, temp_scan, items[i].json))

qalas_selection_without_qu_motion(jsons) == without_qu_loop(ScansOf(jsons), 1, BestInit)

-----------------------------------------------------------------------------
(* The bucket of Spec: four QC jsons of two sessions, in the order the bucket lists them *)

Json_V02_B == "SITE00000_654321_V02_B_mripcqc_info.json"
Json_V02_C == "SITE00000_654321_V02_C_mripcqc_info.json"
Json_V03_A == "SITE00001_123456_V03_A_mripcqc_info.json"
Json_V03 == "SITE00001_123456_V03_mripcqc_info.json"

AllJsons == << Json_V02_B, Json_V02_C, Json_V03_A, Json_V03 >>

QcScan(compliant, qu, aqc, snr, uid) ==
    [SeriesType |-> "qMRI", HBCD_compliant |-> compliant,
     QU_motion |-> qu, aqc_motion |-> aqc, brain_SNR |-> snr,
     SeriesInstanceUID |-> uid, StudyInstanceUID |-> "1.2.826.1", SubjID |-> "123456"]

OtherScan ==
    [SeriesType |-> "T1w", HBCD_compliant |-> Some("Yes"),
     QU_motion |-> None, aqc_motion |-> None, brain_SNR |-> None,
     SeriesInstanceUID |-> "1.2.840.9", StudyInstanceUID |-> "1.2.826.1", SubjID |-> "123456"]

\* V02_B: a qMRI scan whose aqc_motion is not filled in yet; V02_C: a complete scan that
\* is not compliant; V03_A and V03: one complete compliant scan each, V03_A the better
BucketContent ==
    (Json_V02_B :> << OtherScan, QcScan(Some("Yes"), Some(1), None, Some(20), "1.2.840.1") >>)
    @@ (Json_V02_C :> << QcScan(Some("No"), Some(1), Some(1), Some(20), "1.2.840.2") >>)
    @@ (Json_V03_A :> << QcScan(Some("Yes"), Some(1), Some(1), Some(30), "1.2.840.3") >>)
    @@ (Json_V03 :> << QcScan(Some("Yes"), Some(1), Some(1), Some(20), "1.2.840.4") >>)

\* line 700: '_'.join(temp_file.split('_')[0:3])
file_split(temp_file) == Join("_", Take(Split(temp_file, "_"), 3))

Sessions == { file_split(AllJsons[i]) : i \in 1..Len(AllJsons) }

\* dict[key] = value
Put(d, k, v) == [x \in DOMAIN d \cup {k} |-> IF x = k THEN v ELSE d[x]]

\* a mutant of GroupJsons: a file of a key that is already there replaces its list
RECURSIVE GroupJsons_replacing(_, _)
GroupJsons_replacing(files, d) ==
    IF files = << >> THEN d
    ELSE LET temp_file == Head(files)
             k == file_split(temp_file)
         IN GroupJsons_replacing(Tail(files),
                IF k \in DOMAIN d.files
                THEN [d EXCEPT !.files[k] = << temp_file >>]
                ELSE [order |-> Append(d.order, k), files |-> Put(d.files, k, << temp_file >>)])

\* lines 698-704: jsons_dict, with the order of its keys
RECURSIVE GroupJsons(_, _)
GroupJsons(files, d) ==
    IF files = << >> THEN d
    ELSE LET temp_file == Head(files)
             k == file_split(temp_file)
         IN GroupJsons(Tail(files),
                IF k \in DOMAIN d.files
                THEN [d EXCEPT !.files[k] = Append(@, temp_file)]
                ELSE [order |-> Append(d.order, k), files |-> Put(d.files, k, << temp_file >>)])

EmptyDict == [order |-> << >>, files |-> << >>]

\* line 697: the listing of the bucket, in key order
Listing == SelectSeq(AllJsons, LAMBDA k : k \in bucket_jsons)

EmptyReproc ==
    [to_reprocess |-> {}, new_archive_available |-> {}, qalas_in_qc_but_not_archive |-> {},
     no_niftis_to_upload |-> {}, missing_archive |-> {}]

\* lines 743-745
RECURSIVE RemoveEach(_, _)
RemoveEach(skip, reproc) ==
    IF reproc = << >> THEN skip
    ELSE RemoveEach(IF In(Head(reproc), skip) THEN ListRemove(skip, Head(reproc)) ELSE skip,
                    Tail(reproc))

\* a mutant of SkipList: missing_archive is left out of the skip list
SkipList_mutant(naa, qiq, nnu, ma, reproc) == RemoveEach(naa \o qiq \o nnu, reproc)

\* lines 742-745: sessions_to_skip
SkipList(naa, qiq, nnu, ma, reproc) == RemoveEach(naa \o qiq \o nnu \o ma, reproc)

\* lines 766-769
NumSame(jsons, already_processed_archives) ==
    Cardinality({ i \in 1..Len(jsons) : In(jsons[i], already_processed_archives) })

\* lines 753-788: the loop over jsons_dict.keys(); c holds what the loop reads and acc
\* what it writes
RECURSIVE SelectSessions(_, _, _, _)
SelectSessions(keys, i, acc, c) ==
    IF i > Len(keys) THEN acc
    ELSE
    LET temp_session == keys[i]
        seen == [acc EXCEPT !.examined = @ \cup {temp_session}]
        take == [seen EXCEPT !.evaluate = Append(@, temp_session), !.num = @ + 1]
    IN  IF In(temp_session, c.skip)
        THEN SelectSessions(keys, i + 1, [seen EXCEPT !.skipped = @ \cup {temp_session}], c)
        ELSE IF temp_session \in DOMAIN c.tracking /\ ~In(temp_session, c.reproc)
                /\ NumSame(c.files[temp_session], c.tracking[temp_session].jsons_tested)
                      = Len(c.tracking[temp_session].jsons_tested)
        THEN SelectSessions(keys, i + 1, seen, c)
        ELSE LET after ==
                   IF temp_session \in DOMAIN c.tracking
                   THEN IF In(temp_session, c.reproc)
                        THEN [take EXCEPT !.attempted = Append(@, temp_session)]
                        ELSE [seen EXCEPT !.new_archive = Append(@, temp_session)]
                   ELSE IF acc.num < c.batch_limit THEN take ELSE seen
             IN IF after.num = c.batch_limit THEN after
                ELSE SelectSessions(keys, i + 1, after, c)

-----------------------------------------------------------------------------
(* main(): lines 696-791 *)

NoOutput == [num_niftis_generated |-> 0, subject_label |-> None, session_label |-> None]
NoEvents == [s \in Sessions |-> << >>]
NoOutcome == [s \in Sessions |-> "none"]

\* --keep_work_dirs is not given
keep_work_dirs == FALSE

temp_session == sessions_to_evaluate[idx]

\* lines 698-791 once the listing is grouped into dict: the logs are read and the
\* sessions of the batch are selected
ReadLogsAndSelect(dict, custom_processing_batch_size) ==
    /\ batch_limit' = custom_processing_batch_size
    /\ jsons_dict' = dict
    /\ tracking_log_data' = tracking_log_file
    /\ start_tracking' = tracking_log_file
    /\ start_reproc' = reproc_log_file
    /\ start_session_dir' = session_dir
    /\ to_reprocess' = SetToSeq(reproc_log_file.to_reprocess)
    /\ qalas_in_qc_but_not_archive' = SetToSeq(reproc_log_file.qalas_in_qc_but_not_archive)
    /\ no_niftis_to_upload' = SetToSeq(reproc_log_file.no_niftis_to_upload)
    /\ missing_archive' = SetToSeq(reproc_log_file.missing_archive)
    /\ sessions_to_skip' =
          SkipList(SetToSeq(reproc_log_file.new_archive_available),
                   qalas_in_qc_but_not_archive', no_niftis_to_upload', missing_archive',
                   to_reprocess')
    /\ LET sel == SelectSessions(jsons_dict'.order, 1,
                     [evaluate |-> << >>, attempted |-> << >>,
                      new_archive |-> SetToSeq(reproc_log_file.new_archive_available),
                      num |-> 0, examined |-> {}, skipped |-> {}],
                     [skip |-> sessions_to_skip', tracking |-> tracking_log_data',
                      reproc |-> to_reprocess', files |-> jsons_dict'.files,
                      batch_limit |-> batch_limit'])
       IN /\ sessions_to_evaluate' = sel.evaluate
          /\ reprocess_attempted' = sel.attempted
          /\ new_archive_available' = sel.new_archive
          /\ examined' = sel.examined
          /\ skipped' = sel.skipped
    /\ idx' = 1
    /\ pc' = IF sessions_to_evaluate' = << >> THEN "save_tracking" ELSE "session"
    /\ stage' = IF sessions_to_evaluate' = << >> THEN "none" ELSE "fetch_qc"
    /\ UNCHANGED << bucket_vars, disk_vars, sel_vars, conv_vars, env_changes, prev_succeeded >>

\* lines 696-791: a run of main() starts
MainStart ==
    /\ pc = "idle"
    /\ runs < MaxRuns
    /\ runs' = runs + 1
    /\ \E custom_processing_batch_size \in 0..MaxBatch :
          ReadLogsAndSelect(GroupJsons(Listing, EmptyDict), custom_processing_batch_size)
    /\ events' = NoEvents
    /\ outcome' = NoOutcome
    /\ UNCHANGED other_vars

-----------------------------------------------------------------------------
(* main(): the loop body of lines 797-921, one action per step *)

Event(e) == events' = [events EXCEPT ![temp_session] = Append(@, e)]
Outcome(o) == outcome' = [outcome EXCEPT ![temp_session] = o]

\* the variables a loop iteration sets before it reads them
ForgetSession ==
    /\ downloaded_jsons' = << >>
    /\ best_qalas_info' = None
    /\ qc_or_other_missing' = FALSE
    /\ qalas_folders' = 0
    /\ output_info' = NoOutput

\* the for statement of line 797 takes the next session, or the loop ends
NextSession ==
    /\ idx' = idx + 1
    /\ pc' = IF idx = Len(sessions_to_evaluate) THEN "save_tracking" ELSE "session"
    /\ stage' = IF idx = Len(sessions_to_evaluate) THEN "none" ELSE "fetch_qc"
    /\ ForgetSession

\* a mutant of Raise: the exception is swallowed and main() goes on to write the logs
Raise_swallowed ==
    /\ pc' = "save_tracking"
    /\ stage' = "none"
    /\ Outcome("raised")
    /\ UNCHANGED idx

\* an exception leaves main()
Raise ==
    /\ pc' = "raised"
    /\ stage' = "none"
    /\ Outcome("raised")
    /\ UNCHANGED idx

\* the orders in which glob may return the files of a folder
GlobOrders(S) == { q \in [1..Cardinality(S) -> S] : Range(q) = S }

\* lines 802-813: download the QC jsons of the session; a failed download raises
FetchQcJsons ==
    /\ pc = "session" /\ stage = "fetch_qc"
    /\ session_dir' = [session_dir EXCEPT ![temp_session] = @ \cup {"qc_jsons"}]
    /\ Event("fetch_qc")
    /\ LET files == jsons_dict.files[temp_session]
       IN \/ /\ qc_jsons_files' = [qc_jsons_files EXCEPT ![temp_session] = @ \cup Range(files)]
             /\ \E q \in GlobOrders(qc_jsons_files'[temp_session]) :
                   downloaded_jsons' = [i \in 1..Len(q) |-> LocalPath(temp_session, q[i])]
             /\ stage' = "select_first"
             /\ UNCHANGED << pc, idx, outcome >>
          \/ /\ \E failed \in 1..Len(files) :
                   qc_jsons_files' = [qc_jsons_files EXCEPT
                                         ![temp_session] = @ \cup Range(Take(files, failed - 1))]
             /\ Raise
             /\ UNCHANGED downloaded_jsons
    /\ UNCHANGED << bucket_vars, tracking_log_file, reproc_log_exists, reproc_log_file,
                    tracking_log_data, list_vars, start_vars, best_qalas_info,
                    qc_or_other_missing, conv_vars, env_changes, prev_succeeded >>
    /\ UNCHANGED other_vars

\* line 817
SelFirstPass ==
    /\ pc = "session" /\ stage = "select_first"
    /\ LET r == qalas_selection_with_qu_motion(downloaded_jsons)
       IN /\ best_qalas_info' = r.info
          /\ qc_or_other_missing' = r.missing
    /\ stage' = IF IsNone(best_qalas_info') THEN "select_second" ELSE "fetch_archive"
    /\ Event("select")
    /\ UNCHANGED << bucket_vars, disk_vars, pc, tracking_log_data, list_vars, start_vars, idx,
                    downloaded_jsons, conv_vars, env_changes, outcome, prev_succeeded >>
    /\ UNCHANGED other_vars

\* lines 818-820
SelSecondPass ==
    /\ pc = "session" /\ stage = "select_second"
    /\ LET r == qalas_selection_without_qu_motion(downloaded_jsons)
       IN /\ best_qalas_info' = r.info
          /\ qc_or_other_missing' = r.missing
    /\ stage' = IF IsNone(best_qalas_info') THEN "no_winner" ELSE "fetch_archive"
    /\ UNCHANGED << bucket_vars, disk_vars, pc, tracking_log_data, list_vars, start_vars, idx,
                    downloaded_jsons, conv_vars, env_changes, events, outcome,
                    prev_succeeded >>
    /\ UNCHANGED other_vars

\* the result main works with after line 820
two_pass_selection(jsons) ==
    LET r == qalas_selection_with_qu_motion(jsons)
    IN IF IsNone(r.info) THEN qalas_selection_without_qu_motion(jsons) ELSE r

\* a mutant of NoWinner: the session is never added to the tracking log
NoWinner_forget ==
    /\ pc = "session" /\ stage = "no_winner"
    /\ Outcome(IF qc_or_other_missing = FALSE THEN "no_scan" ELSE "incomplete")
    /\ stage' = "cleanup"
    /\ UNCHANGED << bucket_vars, disk_vars, pc, tracking_log_data, list_vars, start_vars, idx,
                    sel_vars, conv_vars, env_changes, events, prev_succeeded >>
    /\ UNCHANGED other_vars

\* a mutant of NoWinner: the tracking log is written to disk as soon as it changes
NoWinner_flush ==
    /\ pc = "session" /\ stage = "no_winner"
    /\ IF qc_or_other_missing = FALSE
       THEN /\ tracking_log_data' =
                  Put(tracking_log_data, temp_session,
                      [jsons_tested |-> jsons_dict.files[temp_session]])
            /\ Outcome("no_scan")
       ELSE /\ UNCHANGED tracking_log_data
            /\ Outcome("incomplete")
    /\ tracking_log_file' = tracking_log_data'
    /\ stage' = "cleanup"
    /\ UNCHANGED << bucket_vars, reproc_log_exists, reproc_log_file, session_dir,
                    qc_jsons_files, pc, list_vars, start_vars, idx, sel_vars, conv_vars,
                    env_changes, events, prev_succeeded >>
    /\ UNCHANGED other_vars

\* a mutant of NoWinner: the session is added to the tracking log whatever the flag
NoWinner_always ==
    /\ pc = "session" /\ stage = "no_winner"
    /\ tracking_log_data' =
          Put(tracking_log_data, temp_session,
              [jsons_tested |-> jsons_dict.files[temp_session]])
    /\ Outcome(IF qc_or_other_missing = FALSE THEN "no_scan" ELSE "incomplete")
    /\ stage' = "cleanup"
    /\ UNCHANGED << bucket_vars, disk_vars, pc, list_vars, start_vars, idx, sel_vars,
                    conv_vars, env_changes, events, prev_succeeded >>
    /\ UNCHANGED other_vars

\* lines 902-914: no scan was selected
NoWinner ==
    /\ pc = "session" /\ stage = "no_winner"
    /\ IF qc_or_other_missing = FALSE
       THEN /\ tracking_log_data' =
                  Put(tracking_log_data, temp_session,
                      [jsons_tested |-> jsons_dict.files[temp_session]])
            /\ Outcome("no_scan")
       ELSE /\ UNCHANGED tracking_log_data
            /\ Outcome("incomplete")
    /\ stage' = "cleanup"
    /\ UNCHANGED << bucket_vars, disk_vars, pc, list_vars, start_vars, idx, sel_vars,
                    conv_vars, env_changes, events, prev_succeeded >>
    /\ UNCHANGED other_vars

\* a mutant of WithJsonsTested: only the first QC json of the session is recorded
WithJsonsTested_partial(info, jsons) ==
    [QU_motion |-> info.QU_motion,
     aqc_motion |-> info.aqc_motion,
     SeriesInstanceUID |-> info.SeriesInstanceUID,
     StudyInstanceUID |-> info.StudyInstanceUID,
     SubjID |-> info.SubjID,
     json_for_unpacked_archive |-> info.json_for_unpacked_archive,
     archive_to_download |-> info.archive_to_download,
     jsons_tested |-> Take(jsons, 1)]

\* best_qalas_info['jsons_tested'] = ...
WithJsonsTested(info, jsons) ==
    [QU_motion |-> info.QU_motion,
     aqc_motion |-> info.aqc_motion,
     SeriesInstanceUID |-> info.SeriesInstanceUID,
     StudyInstanceUID |-> info.StudyInstanceUID,
     SubjID |-> info.SubjID,
     json_for_unpacked_archive |-> info.json_for_unpacked_archive,
     archive_to_download |-> info.archive_to_download,
     jsons_tested |-> jsons]

\* a mutant of FetchArchive: a failed download is filed under no_niftis_to_upload
FetchArchive_misfiled ==
    /\ pc = "session" /\ stage = "fetch_archive"
    /\ session_dir' = [session_dir EXCEPT ![temp_session] = @ \cup {"dicoms"}]
    /\ Event("fetch_archive")
    /\ \/ /\ best_qalas_info' =
                Some(WithJsonsTested(Val(best_qalas_info), jsons_dict.files[temp_session]))
          /\ stage' = "unpack"
          /\ UNCHANGED << pc, idx, no_niftis_to_upload, outcome, downloaded_jsons,
                          qc_or_other_missing, conv_vars >>
       \/ /\ no_niftis_to_upload' = Append(no_niftis_to_upload, temp_session)
          /\ Outcome("missing_archive")
          /\ NextSession
    /\ UNCHANGED << bucket_vars, tracking_log_file, reproc_log_exists, reproc_log_file,
                    qc_jsons_files, tracking_log_data, to_reprocess, new_archive_available,
                    qalas_in_qc_but_not_archive, missing_archive, reprocess_attempted,
                    start_vars, env_changes, prev_succeeded >>
    /\ UNCHANGED other_vars

\* a mutant of FetchArchive: the downloaded archive goes to the conversion without
\* being unpacked
FetchArchive_unpacking_skipped ==
    /\ pc = "session" /\ stage = "fetch_archive"
    /\ session_dir' = [session_dir EXCEPT ![temp_session] = @ \cup {"dicoms"}]
    /\ Event("fetch_archive")
    /\ \/ /\ best_qalas_info' =
                Some(WithJsonsTested(Val(best_qalas_info), jsons_dict.files[temp_session]))
          /\ stage' = "convert"
          /\ UNCHANGED << pc, idx, missing_archive, outcome, downloaded_jsons,
                          qc_or_other_missing, conv_vars >>
       \/ /\ missing_archive' = Append(missing_archive, temp_session)
          /\ Outcome("missing_archive")
          /\ NextSession
    /\ UNCHANGED << bucket_vars, tracking_log_file, reproc_log_exists, reproc_log_file,
                    qc_jsons_files, tracking_log_data, to_reprocess, new_archive_available,
                    qalas_in_qc_but_not_archive, no_niftis_to_upload, reprocess_attempted,
                    start_vars, env_changes, prev_succeeded >>
    /\ UNCHANGED other_vars

\* a mutant of FetchArchive: a session whose archive is missing leaves
\* no_niftis_to_upload when it enters missing_archive
FetchArchive_moving ==
    /\ pc = "session" /\ stage = "fetch_archive"
    /\ session_dir' = [session_dir EXCEPT ![temp_session] = @ \cup {"dicoms"}]
    /\ Event("fetch_archive")
    /\ \/ /\ best_qalas_info' =
                Some(WithJsonsTested(Val(best_qalas_info), jsons_dict.files[temp_session]))
          /\ stage' = "unpack"
          /\ UNCHANGED << pc, idx, missing_archive, no_niftis_to_upload, outcome,
                          downloaded_jsons, qc_or_other_missing, conv_vars >>
       \/ /\ missing_archive' = Append(missing_archive, temp_session)
          /\ no_niftis_to_upload' =
                SelectSeq(no_niftis_to_upload, LAMBDA x : x # temp_session)
          /\ Outcome("missing_archive")
          /\ NextSession
    /\ UNCHANGED << bucket_vars, tracking_log_file, reproc_log_exists, reproc_log_file,
                    qc_jsons_files, tracking_log_data, to_reprocess, new_archive_available,
                    qalas_in_qc_but_not_archive, reprocess_attempted,
                    start_vars, env_changes, prev_succeeded >>
    /\ UNCHANGED other_vars

\* lines 828-841: download the archive of the selected scan
FetchArchive ==
    /\ pc = "session" /\ stage = "fetch_archive"
    /\ session_dir' = [session_dir EXCEPT ![temp_session] = @ \cup {"dicoms"}]
    /\ Event("fetch_archive")
    /\ \/ /\ best_qalas_info' =
                Some(WithJsonsTested(Val(best_qalas_info), jsons_dict.files[temp_session]))
          /\ stage' = "unpack"
          /\ UNCHANGED << pc, idx, missing_archive, outcome, downloaded_jsons,
                          qc_or_other_missing, conv_vars >>
       \/ /\ missing_archive' = Append(missing_archive, temp_session)
          /\ Outcome("missing_archive")
          /\ NextSession
    /\ UNCHANGED << bucket_vars, tracking_log_file, reproc_log_exists, reproc_log_file,
                    qc_jsons_files, tracking_log_data, to_reprocess, new_archive_available,
                    qalas_in_qc_but_not_archive, no_niftis_to_upload, reprocess_attempted,
                    start_vars, env_changes, prev_succeeded >>
    /\ UNCHANGED other_vars

\* lines 843-853: unpack the archive and look for the folders of the selected scan;
\* tarfile and dcmread raise on an archive they cannot read
UnpackArchive ==
    /\ pc = "session" /\ stage = "unpack"
    /\ Event("unpack")
    /\ \/ \E found \in 1..MaxFolders :
             /\ qalas_folders' = found
             /\ stage' = "convert"
             /\ UNCHANGED << pc, idx, qalas_in_qc_but_not_archive, outcome, sel_vars,
                             output_info >>
       \/ /\ qalas_in_qc_but_not_archive' = Append(qalas_in_qc_but_not_archive, temp_session)
          /\ Outcome("qalas_in_qc_but_not_archive")
          /\ NextSession
       \/ /\ Raise
          /\ UNCHANGED << qalas_in_qc_but_not_archive, sel_vars, conv_vars >>
    /\ UNCHANGED << bucket_vars, disk_vars, tracking_log_data, to_reprocess,
                    new_archive_available, no_niftis_to_upload, missing_archive,
                    reprocess_attempted, start_vars, env_changes, prev_succeeded >>
    /\ UNCHANGED other_vars

\* lines 362-385: (sub_label, ses_label), None standing for False
targz_to_sub_ses_labels(targz_name) ==
    LET split_name == Split(Last(Split(targz_name, "/")), "_")
    IN IF /\ Len(split_name) >= 3
          /\ Len(split_name[1]) = 9
          /\ Len(split_name[2]) = 6
          /\ Len(split_name[3]) = 3
          /\ SubSeq(split_name[3], 1, 1) = "V"
       THEN IF Len(split_name) = 3
            THEN [sub_label |-> Some(split_name[2]),
                  ses_label |-> Some(Split(split_name[3], ".")[1])]
            ELSE [sub_label |-> Some(split_name[2]), ses_label |-> Some(split_name[3])]
       ELSE [sub_label |-> None, ses_label |-> None]

\* the number of files the SyMRI container leaves in dcm_maps_dir (line 465 expects 7)
ExpectedMaps == 7
MapCounts == { ExpectedMaps - 1, ExpectedMaps, ExpectedMaps + 1 }
\* line 870: fewer niftis than this are not uploaded
MinNiftis == 3
NiftiCounts == { 0, MinNiftis - 1, MinNiftis }

\* lines 863-874: convert_single_tar (lines 388-501) and the test on what it returned
\* the entries of dcm_maps_dir after the SyMRI container has run, as glob counts them
DcmMapsEntries(n) == "dcm_maps_dir/*=" \o ToString(n)

\* a mutant of MapsComplete: more entries than expected pass as well
MapsComplete_or_more(maps) == maps >= ExpectedMaps

\* line 465
MapsComplete(maps) == maps = ExpectedMaps

ConvertSingleTar ==
    /\ pc = "session" /\ stage = "convert"
    /\ Event("convert")
    /\ LET labels == targz_to_sub_ses_labels(Val(best_qalas_info).archive_to_download)
       IN \* lines 402-406
          IF IsNone(labels.sub_label)
          THEN \* lines 418-425
               /\ session_dir' = [session_dir EXCEPT ![temp_session] = @ \cup {"tmp_bids"}]
               /\ no_niftis_to_upload' = Append(no_niftis_to_upload, temp_session)
               /\ Outcome("non_conformant_tar_name")
               /\ NextSession
          ELSE IF qalas_folders # 1
          THEN \* lines 435-438
               /\ session_dir' = [session_dir EXCEPT ![temp_session] = @ \cup {"tmp_bids"}]
               /\ Raise
               /\ UNCHANGED << no_niftis_to_upload, sel_vars, conv_vars >>
          ELSE IF "dcm_maps_dir" \in session_dir[temp_session]
          THEN \* line 453: os.makedirs of a folder that exists
               /\ session_dir' = [session_dir EXCEPT ![temp_session] = @ \cup {"tmp_bids"}]
               /\ Raise
               /\ UNCHANGED << no_niftis_to_upload, sel_vars, conv_vars >>
          ELSE \E maps \in MapCounts, made \in NiftiCounts :
                  /\ session_dir' =
                        [session_dir EXCEPT
                            ![temp_session] = @ \cup {"tmp_bids", "dcm_maps_dir",
                                                      DcmMapsEntries(maps)}]
                  /\ LET num_niftis_generated == IF MapsComplete(maps) THEN made ELSE 0
                     IN IF num_niftis_generated < MinNiftis
                        THEN /\ no_niftis_to_upload' = Append(no_niftis_to_upload, temp_session)
                             /\ Outcome(IF ~MapsComplete(maps)
                                     THEN "symri_conversion_error"
                                     ELSE "too_few_niftis")
                             /\ NextSession
                        ELSE /\ output_info' =
                                   [num_niftis_generated |-> num_niftis_generated,
                                    subject_label |-> labels.sub_label,
                                    session_label |-> labels.ses_label]
                             /\ stage' = "upload"
                             /\ UNCHANGED << pc, idx, no_niftis_to_upload, outcome, sel_vars,
                                             qalas_folders >>
    /\ UNCHANGED << bucket_vars, tracking_log_file, reproc_log_exists, reproc_log_file,
                    qc_jsons_files, tracking_log_data, to_reprocess, new_archive_available,
                    qalas_in_qc_but_not_archive, missing_archive, reprocess_attempted,
                    start_vars, env_changes, prev_succeeded >>
    /\ UNCHANGED other_vars

\* lines 880-885: upload the derivatives; a failed upload raises
PushToS3 ==
    /\ pc = "session" /\ stage = "upload"
    /\ Event("upload")
    /\ \/ /\ stage' = "commit"
          /\ UNCHANGED << pc, idx, outcome >>
       \/ Raise
    /\ UNCHANGED << bucket_vars, disk_vars, tracking_log_data, list_vars, start_vars,
                    sel_vars, conv_vars, env_changes, prev_succeeded >>
    /\ UNCHANGED other_vars

\* if x in list: list.remove(x)
Discard(list, x) == IF In(x, list) THEN ListRemove(list, x) ELSE list

\* lines 890-900: the session was uploaded
CommitSuccess ==
    /\ pc = "session" /\ stage = "commit"
    /\ Event("commit")
    /\ tracking_log_data' = Put(tracking_log_data, temp_session, Val(best_qalas_info))
    /\ IF In(temp_session, reprocess_attempted)
       THEN /\ reprocess_attempted' = ListRemove(reprocess_attempted, temp_session)
            /\ new_archive_available' = Discard(new_archive_available, temp_session)
            /\ qalas_in_qc_but_not_archive' = Discard(qalas_in_qc_but_not_archive, temp_session)
            /\ no_niftis_to_upload' = Discard(no_niftis_to_upload, temp_session)
            /\ missing_archive' = Discard(missing_archive, temp_session)
       ELSE UNCHANGED << reprocess_attempted, new_archive_available,
                         qalas_in_qc_but_not_archive, no_niftis_to_upload, missing_archive >>
    /\ Outcome("success")
    /\ stage' = "cleanup"
    /\ UNCHANGED << bucket_vars, disk_vars, pc, to_reprocess, start_vars, idx, sel_vars,
                    conv_vars, env_changes, prev_succeeded >>
    /\ UNCHANGED other_vars

\* lines 916-921: remove the working directory of the session
CleanUp ==
    /\ pc = "session" /\ stage = "cleanup"
    /\ IF keep_work_dirs = FALSE
       THEN /\ session_dir' = [session_dir EXCEPT ![temp_session] = {}]
            /\ qc_jsons_files' = [qc_jsons_files EXCEPT ![temp_session] = {}]
       ELSE UNCHANGED << session_dir, qc_jsons_files >>
    /\ NextSession
    /\ UNCHANGED << bucket_vars, tracking_log_file, reproc_log_exists, reproc_log_file,
                    tracking_log_data, list_vars, start_vars, env_changes, events, outcome,
                    prev_succeeded >>
    /\ UNCHANGED other_vars

-----------------------------------------------------------------------------
(* main(): lines 923-950, and the end of the process *)

\* lines 923-929: a new tracking_log_<date>.json, the newest from now on
SaveTrackingLog ==
    /\ pc = "save_tracking"
    /\ tracking_log_file' = tracking_log_data
    /\ pc' = "save_reproc"
    /\ UNCHANGED << bucket_vars, reproc_log_exists, reproc_log_file, session_dir,
                    qc_jsons_files, stage, tracking_log_data, list_vars, start_vars, idx,
                    sel_vars, conv_vars, env_changes, events, outcome, prev_succeeded >>
    /\ UNCHANGED other_vars

\* lines 932-943: reproc_log.json is rewritten
\* a mutant of reproc_log_data: to_reprocess is written as it was read
reproc_log_data_keeping ==
    [to_reprocess |-> Range(to_reprocess),
     new_archive_available |-> Range(new_archive_available),
     qalas_in_qc_but_not_archive |-> Range(qalas_in_qc_but_not_archive),
     no_niftis_to_upload |-> Range(no_niftis_to_upload),
     missing_archive |-> Range(missing_archive)]

\* the content of the reprocess log a run writes (lines 932-937)
reproc_log_data ==
    [to_reprocess |->
         { to_reprocess[i] : i \in { j \in 1..Len(to_reprocess) :
                                       ~In(to_reprocess[j], reprocess_attempted) } },
     new_archive_available |-> Range(new_archive_available),
     qalas_in_qc_but_not_archive |-> Range(qalas_in_qc_but_not_archive),
     no_niftis_to_upload |-> Range(no_niftis_to_upload),
     missing_archive |-> Range(missing_archive)]

SaveReprocLog ==
    /\ pc = "save_reproc"
    /\ reproc_log_file' = reproc_log_data
    /\ reproc_log_exists' = TRUE
    /\ pc' = "done"
    /\ UNCHANGED << bucket_vars, tracking_log_file, session_dir, qc_jsons_files, stage,
                    tracking_log_data, list_vars, start_vars, idx, sel_vars, conv_vars,
                    env_changes, events, outcome, prev_succeeded >>
    /\ UNCHANGED other_vars

\* the values the variables of main() have while no process runs
NoProcess ==
    /\ stage = "none"
    /\ batch_limit = 0
    /\ jsons_dict = EmptyDict
    /\ tracking_log_data = << >>
    /\ to_reprocess = << >>
    /\ new_archive_available = << >>
    /\ qalas_in_qc_but_not_archive = << >>
    /\ no_niftis_to_upload = << >>
    /\ missing_archive = << >>
    /\ reprocess_attempted = << >>
    /\ sessions_to_skip = << >>
    /\ sessions_to_evaluate = << >>
    /\ idx = 1
    /\ downloaded_jsons = << >>
    /\ best_qalas_info = None
    /\ qc_or_other_missing = FALSE
    /\ qalas_folders = 0
    /\ output_info = NoOutput
    /\ start_tracking = << >>
    /\ start_reproc = EmptyReproc
    /\ start_session_dir = [s \in Sessions |-> {}]
    /\ examined = {}
    /\ skipped = {}
    /\ events = NoEvents
    /\ outcome = NoOutcome

\* main() returns (line 950) or the exception ends the process
ProcessExit ==
    /\ pc \in {"done", "raised"}
    /\ pc' = "idle"
    /\ prev_succeeded' = IF pc = "done" THEN { s \in Sessions : outcome[s] = "success" } ELSE {}
    /\ stage' = "none"
    /\ batch_limit' = 0
    /\ jsons_dict' = EmptyDict
    /\ tracking_log_data' = << >>
    /\ to_reprocess' = << >>
    /\ new_archive_available' = << >>
    /\ qalas_in_qc_but_not_archive' = << >>
    /\ no_niftis_to_upload' = << >>
    /\ missing_archive' = << >>
    /\ reprocess_attempted' = << >>
    /\ sessions_to_skip' = << >>
    /\ sessions_to_evaluate' = << >>
    /\ idx' = 1
    /\ downloaded_jsons' = << >>
    /\ best_qalas_info' = None
    /\ qc_or_other_missing' = FALSE
    /\ qalas_folders' = 0
    /\ output_info' = NoOutput
    /\ start_tracking' = << >>
    /\ start_reproc' = EmptyReproc
    /\ start_session_dir' = [s \in Sessions |-> {}]
    /\ examined' = {}
    /\ skipped' = {}
    /\ events' = NoEvents
    /\ outcome' = NoOutcome
    /\ UNCHANGED << bucket_vars, disk_vars, runs, env_changes >>
    /\ UNCHANGED other_vars

-----------------------------------------------------------------------------
(* What happens between two runs *)

\* a site uploads the QC json of a new archive
UploadJson ==
    /\ pc = "idle"
    /\ env_changes < MaxEnvChanges
    /\ \E k \in Range(AllJsons) \ bucket_jsons : bucket_jsons' = bucket_jsons \cup {k}
    /\ env_changes' = env_changes + 1
    /\ prev_succeeded' = {}
    /\ UNCHANGED << json_content, disk_vars, pc, stage, tracking_log_data, list_vars,
                    start_vars, idx, sel_vars, conv_vars, events, outcome >>
    /\ UNCHANGED other_vars

\* a QC json disappears from the bucket
DeleteJson ==
    /\ pc = "idle"
    /\ env_changes < MaxEnvChanges
    /\ \E k \in bucket_jsons : bucket_jsons' = bucket_jsons \ {k}
    /\ env_changes' = env_changes + 1
    /\ prev_succeeded' = {}
    /\ UNCHANGED << json_content, disk_vars, pc, stage, tracking_log_data, list_vars,
                    start_vars, idx, sel_vars, conv_vars, events, outcome >>
    /\ UNCHANGED other_vars

\* the operator adds a session to to_reprocess in reproc_log.json (docstring, lines 615-617)
OperatorReprocess ==
    /\ pc = "idle"
    /\ env_changes < MaxEnvChanges
    /\ reproc_log_exists
    /\ \E s \in Sessions \ reproc_log_file.to_reprocess :
          reproc_log_file' = [reproc_log_file EXCEPT !.to_reprocess = @ \cup {s}]
    /\ env_changes' = env_changes + 1
    /\ prev_succeeded' = {}
    /\ UNCHANGED << bucket_vars, tracking_log_file, reproc_log_exists, session_dir,
                    qc_jsons_files, pc, stage, tracking_log_data, list_vars, start_vars, idx,
                    sel_vars, conv_vars, events, outcome >>
    /\ UNCHANGED other_vars

\* the operator deletes the working directory of a session (docstring, lines 621-624)
OperatorDeleteWorkDir ==
    /\ pc = "idle"
    /\ env_changes < MaxEnvChanges
    /\ \E s \in Sessions :
          /\ session_dir[s] # {}
          /\ session_dir' = [session_dir EXCEPT ![s] = {}]
          /\ qc_jsons_files' = [qc_jsons_files EXCEPT ![s] = {}]
    /\ env_changes' = env_changes + 1
    /\ prev_succeeded' = {}
    /\ UNCHANGED << bucket_vars, tracking_log_file, reproc_log_exists, reproc_log_file, pc,
                    stage, tracking_log_data, list_vars, start_vars, idx, sel_vars, conv_vars,
                    events, outcome >>
    /\ UNCHANGED other_vars

-----------------------------------------------------------------------------
(* Spec: runs of main() over the bucket, with the changes between them *)

Init ==
    /\ bucket_jsons \in SUBSET Range(AllJsons)
    /\ json_content = BucketContent
    /\ tracking_log_file = << >>
    /\ reproc_log_exists = FALSE
    /\ reproc_log_file = EmptyReproc
    /\ session_dir = [s \in Sessions |-> {}]
    /\ qc_jsons_files = [s \in Sessions |-> {}]
    /\ pc = "idle"
    /\ NoProcess
    /\ runs = 0
    /\ env_changes = 0
    /\ prev_succeeded = {}
    /\ LegacyIdle
    /\ TreeIdle

Next ==
    \/ MainStart
    \/ FetchQcJsons
    \/ SelFirstPass
    \/ SelSecondPass
    \/ NoWinner
    \/ FetchArchive
    \/ UnpackArchive
    \/ ConvertSingleTar
    \/ PushToS3
    \/ CommitSuccess
    \/ CleanUp
    \/ SaveTrackingLog
    \/ SaveReprocLog
    \/ ProcessExit
    \/ UploadJson
    \/ DeleteJson
    \/ OperatorReprocess
    \/ OperatorDeleteWorkDir

Spec == Init /\ [][Next]_vars

-----------------------------------------------------------------------------
(* Properties of the runs of main() *)

FailureBuckets ==
    {"new_archive_available", "qalas_in_qc_but_not_archive", "no_niftis_to_upload",
     "missing_archive"}
ReprocLists == FailureBuckets \cup {"to_reprocess"}

InSomeBucket(log, s) == \E b \in FailureBuckets : s \in log[b]

\* dict.get(s)
Entry(d, s) == IF s \in DOMAIN d THEN Some(d[s]) ELSE None

\* C1: idempotence of main(). When a run follows a completed run with no change to the
\* bucket, the logs or the working directories in between, it performs no conversion
\* and no upload for any session the earlier run uploaded successfully, whether or not
\* that session was in to_reprocess when the earlier run started.
C1_Idempotence ==
    \A s \in prev_succeeded : ~In("convert", events[s]) /\ ~In("upload", events[s])

\* C2: reprocess override. A session that no_niftis_to_upload lists at the start of a run
\* is not evaluated by the run unless to_reprocess lists it too; when to_reprocess lists
\* it and its evaluation ends in a successful upload, the reprocess log the run writes
\* has the session in none of the four failure buckets, with or without a tracking entry.
C2_ReprocessOverride ==
    pc = "done" =>
        \A s \in start_reproc.no_niftis_to_upload :
            /\ s \notin start_reproc.to_reprocess => events[s] = << >>
            /\ (s \in start_reproc.to_reprocess /\ outcome[s] = "success")
                  => ~InSomeBucket(reproc_log_file, s)

\* C3: new metadata detection. A session the loop of lines 753-788 reaches, with a
\* tracking entry, outside to_reprocess and outside the skip list, whose current QC jsons
\* are a strict superset of the recorded jsons_tested, is put in new_archive_available
\* by the run and is not evaluated.
C3_NewMetadataDetection ==
    pc = "done" =>
        \A s \in examined :
            (/\ s \in DOMAIN start_tracking
             /\ s \notin start_reproc.to_reprocess
             /\ ~In(s, sessions_to_skip)
             /\ Range(start_tracking[s].jsons_tested) \subseteq Range(jsons_dict.files[s])
             /\ Range(start_tracking[s].jsons_tested) # Range(jsons_dict.files[s]))
            => /\ s \in reproc_log_file.new_archive_available
               /\ events[s] = << >>

\* C4: commit on success clears every bucket. When the processing of a session ends
\* with a successful upload, the reprocess log written at the end of the run has the
\* session in none of its five lists.
C4_CommitClearsBuckets ==
    pc = "done" =>
        \A s \in Sessions :
            outcome[s] = "success" => \A b \in ReprocLists : s \notin reproc_log_file[b]

\* C5: to_reprocess overrides the skip list. A session of to_reprocess that has a QC json
\* in the bucket never takes the continue of line 760, whichever and however many of
\* the four failure buckets list it.
C5_ToReprocessOverridesSkip ==
    \A s \in start_reproc.to_reprocess :
        s \in DOMAIN jsons_dict.files => s \notin skipped /\ ~In(s, sessions_to_skip)

\* C6: skip rule. In every run, a session that one of the four failure buckets lists and
\* to_reprocess does not is not evaluated (no metadata fetch, selection, archive fetch,
\* conversion or upload), and the run leaves its tracking entry and its membership of
\* the five lists as they were.
C6_SkipRule ==
    pc # "idle" =>
        \A s \in Sessions :
            (InSomeBucket(start_reproc, s) /\ s \notin start_reproc.to_reprocess) =>
                /\ events[s] = << >>
                /\ outcome[s] = "none"
                /\ Entry(tracking_log_data, s) = Entry(start_tracking, s)
                /\ Entry(tracking_log_file, s) = Entry(start_tracking, s)
                /\ \A b \in ReprocLists : s \in reproc_log_file[b] <=> s \in start_reproc[b]

\* C6 witness: a run that has written both logs found a session in missing_archive and
\* not in to_reprocess, skipped it at line 760 while its QC json was in the bucket, and
\* evaluated another session.
C6_Witness ==
    /\ pc = "done"
    /\ \E s \in skipped :
          /\ s \in start_reproc.missing_archive
          /\ s \notin start_reproc.to_reprocess
          /\ s \in reproc_log_file.missing_archive
          /\ \E t \in Sessions \ {s} : events[t] # << >>

\* C7: end-to-end scenario. For a session without prior state whose only QC json is
\* SITE00001_123456_V03_mripcqc_info.json, holding one compliant qMRI scan with all four
\* QC fields, when the archive is fetched, one folder is extracted and neither the map
\* conversion nor the layout conversion nor the upload fails, the run writes a tracking
\* entry for SITE00001_123456_V03 with archive_to_download SITE00001_123456_V03.tar.gz
\* and the session is in no list of the reprocess log.
C7_EndToEnd ==
    pc = "done" =>
        LET s == "SITE00001_123456_V03"
        IN (/\ s \in DOMAIN jsons_dict.files
            /\ jsons_dict.files[s] = << Json_V03 >>
            /\ s \notin DOMAIN start_tracking
            /\ \A b \in ReprocLists : s \notin start_reproc[b]
            /\ start_session_dir[s] = {}
            /\ In("convert", events[s])
            /\ outcome[s] \notin {"symri_conversion_error", "too_few_niftis"})
           => /\ s \in DOMAIN tracking_log_file
              /\ "archive_to_download" \in DOMAIN tracking_log_file[s]
              /\ tracking_log_file[s].archive_to_download = "SITE00001_123456_V03.tar.gz"
              /\ \A b \in ReprocLists : s \notin reproc_log_file[b]

-----------------------------------------------------------------------------
(* SpecSel: lines 815-820 applied to every session of at most MaxRecs scans, taken up
   where its QC jsons have been downloaded *)

Scores == { None } \cup { Some(v) : v \in 1..MaxScore }
Compliance == { None, Some("Yes"), Some("No") }

\* the QC fields of one scan of the json
ScanFields ==
    [SeriesType : {"qMRI"}, HBCD_compliant : Compliance,
     QU_motion : Scores, aqc_motion : Scores, brain_SNR : Scores]
    \cup
    [SeriesType : {"T1w"}, HBCD_compliant : {Some("Yes")},
     QU_motion : {None}, aqc_motion : {None}, brain_SNR : {None}]

Digit(i) == SubSeq("123456789", i, i)
Letter(i) == SubSeq("ABCDEFGHI", i, i)

\* scan number i of the session, with its identifying fields
MkScan(f, i) ==
    [SeriesType |-> f.SeriesType, HBCD_compliant |-> f.HBCD_compliant,
     QU_motion |-> f.QU_motion, aqc_motion |-> f.aqc_motion, brain_SNR |-> f.brain_SNR,
     SeriesInstanceUID |-> "1.2.840." \o Digit(i),
     StudyInstanceUID |-> "1.2.826.1",
     SubjID |-> "123456"]

SelSession == "SITE00001_123456_V03"
SelKey(i) == SelSession \o "_" \o Letter(i) \o "_mripcqc_info.json"

\* one scan per json, or all the scans in the first json
SelContent(fs, one_file) ==
    IF one_file
    THEN [k \in {SelKey(1)} |-> [i \in 1..Len(fs) |-> MkScan(fs[i], i)]]
    ELSE [k \in {SelKey(i) : i \in 1..Len(fs)} |->
             LET i == CHOOSE j \in 1..Len(fs) : SelKey(j) = k IN << MkScan(fs[i], i) >>]

SelPaths(fs, one_file) ==
    IF one_file THEN << LocalPath(SelSession, SelKey(1)) >>
    ELSE [i \in 1..Len(fs) |-> LocalPath(SelSession, SelKey(i))]

\* the three scans of the selection example, as one json
ExampleScans ==
    << [SeriesType |-> "qMRI", HBCD_compliant |-> Some("Yes"),
        QU_motion |-> Some(2), aqc_motion |-> Some(5), brain_SNR |-> Some(10)],
       [SeriesType |-> "qMRI", HBCD_compliant |-> Some("Yes"),
        QU_motion |-> Some(2), aqc_motion |-> Some(3), brain_SNR |-> Some(8)],
       [SeriesType |-> "qMRI", HBCD_compliant |-> Some("No"),
        QU_motion |-> Some(1), aqc_motion |-> Some(1), brain_SNR |-> Some(99)] >>

\* three scans of which the last one has no QU_motion, as one json
PartialQuScans ==
    << [SeriesType |-> "qMRI", HBCD_compliant |-> Some("Yes"),
        QU_motion |-> Some(1), aqc_motion |-> Some(2), brain_SNR |-> Some(2)],
       [SeriesType |-> "qMRI", HBCD_compliant |-> Some("Yes"),
        QU_motion |-> Some(2), aqc_motion |-> Some(1), brain_SNR |-> Some(1)],
       [SeriesType |-> "qMRI", HBCD_compliant |-> Some("No"),
        QU_motion |-> None, aqc_motion |-> Some(1), brain_SNR |-> Some(2)] >>

SelInputs ==
    { << fs, one_file >> :
        fs \in UNION { [1..n -> ScanFields] : n \in 1..MaxRecs },
        one_file \in BOOLEAN }
    \cup { << ExampleScans, TRUE >>, << PartialQuScans, TRUE >> }

SelInit ==
    /\ \E inp \in SelInputs :
          /\ json_content = SelContent(inp[1], inp[2])
          /\ downloaded_jsons = SelPaths(inp[1], inp[2])
          /\ bucket_jsons = DOMAIN json_content
          /\ jsons_dict = [order |-> << SelSession >>,
                           files |-> [s \in {SelSession} |->
                                         SelectSeq([i \in 1..MaxRecs |-> SelKey(i)],
                                                   LAMBDA k : k \in DOMAIN json_content)]]
          /\ qc_jsons_files = [s \in Sessions |->
                                  IF s = SelSession THEN DOMAIN json_content ELSE {}]
    /\ tracking_log_file = << >>
    /\ reproc_log_exists = FALSE
    /\ reproc_log_file = EmptyReproc
    /\ session_dir = [s \in Sessions |-> IF s = SelSession THEN {"qc_jsons"} ELSE {}]
    /\ pc = "session"
    /\ stage = "select_first"
    /\ batch_limit = 1
    /\ tracking_log_data = << >>
    /\ to_reprocess = << >>
    /\ new_archive_available = << >>
    /\ qalas_in_qc_but_not_archive = << >>
    /\ no_niftis_to_upload = << >>
    /\ missing_archive = << >>
    /\ reprocess_attempted = << >>
    /\ sessions_to_skip = << >>
    /\ sessions_to_evaluate = << SelSession >>
    /\ idx = 1
    /\ best_qalas_info = None
    /\ qc_or_other_missing = FALSE
    /\ qalas_folders = 0
    /\ output_info = NoOutput
    /\ runs = 1
    /\ env_changes = 0
    /\ start_tracking = << >>
    /\ start_reproc = EmptyReproc
    /\ start_session_dir = [s \in Sessions |-> {}]
    /\ examined = {SelSession}
    /\ skipped = {}
    /\ events = [NoEvents EXCEPT ![SelSession] = << "fetch_qc" >>]
    /\ outcome = NoOutcome
    /\ prev_succeeded = {}
    /\ LegacyIdle
    /\ TreeIdle

SelNext == SelFirstPass \/ SelSecondPass

SpecSel == SelInit /\ [][SelNext]_vars

\* the two passes have run
Selected == pc = "session" /\ stage \in {"fetch_archive", "no_winner"}

\* the qMRI scans among the jsons, and the compliant ones among them
QmriScansOf(jsons) ==
    LET items == ScansOf(jsons)
    IN { items[i].scan : i \in { j \in 1..Len(items) : items[j].scan.SeriesType = "qMRI" } }
CompliantOf(qmri) == { sc \in qmri : sc.HBCD_compliant = Some("Yes") }

\* the scans a selection result names
WinnersOf(qmri, info) ==
    IF IsNone(info) THEN {}
    ELSE { sc \in qmri : sc.SeriesInstanceUID = Val(info).SeriesInstanceUID }

\* a is at least as good as b in (QU_motion, aqc_motion, -brain_SNR)
LeqQuAqcSnr(a, b) ==
    \/ Val(a.QU_motion) < Val(b.QU_motion)
    \/ /\ Val(a.QU_motion) = Val(b.QU_motion)
       /\ \/ Val(a.aqc_motion) < Val(b.aqc_motion)
          \/ /\ Val(a.aqc_motion) = Val(b.aqc_motion)
             /\ Val(a.brain_SNR) >= Val(b.brain_SNR)

\* a is at least as good as b in (aqc_motion, -brain_SNR)
LeqAqcSnr(a, b) ==
    \/ Val(a.aqc_motion) < Val(b.aqc_motion)
    \/ /\ Val(a.aqc_motion) = Val(b.aqc_motion)
       /\ Val(a.brain_SNR) >= Val(b.brain_SNR)

IsExample(items) ==
    /\ Len(items) = 3
    /\ \A i \in 1..3 : items[i].scan = MkScan(ExampleScans[i], i)

\* C8: when every qMRI scan has HBCD_compliant, QU_motion, aqc_motion and brain_SNR and
\* at least one is compliant, the selected scan is compliant and minimal in
\* (QU_motion, aqc_motion, -brain_SNR) among the compliant scans; in the example of
\* three scans the second one wins.
C8_Ranking ==
    Selected =>
        LET qmri == QmriScansOf(downloaded_jsons)
            compliant == CompliantOf(qmri)
            winners == WinnersOf(qmri, best_qalas_info)
        IN ((\A sc \in qmri : ~with_qu_missing(sc)) /\ compliant # {}) =>
              /\ Cardinality(winners) = 1
              /\ \A w \in winners :
                    /\ w \in compliant
                    /\ \A sc \in compliant : LeqQuAqcSnr(w, sc)
                    /\ Val(best_qalas_info).QU_motion = w.QU_motion
                    /\ Val(best_qalas_info).aqc_motion = w.aqc_motion
                    /\ IsExample(ScansOf(downloaded_jsons)) => w = MkScan(ExampleScans[2], 2)

\* C8 witness: two compliant scans tie on QU_motion, differ in aqc_motion, a third
\* non-compliant scan has the best scores, and the selection has run.
C8_Witness ==
    /\ Selected
    /\ IsExample(ScansOf(downloaded_jsons))
    /\ ~IsNone(best_qalas_info)
    /\ Val(best_qalas_info).aqc_motion = Some(3)

\* C9: whenever a qMRI scan of the session has no aqc_motion, the two passes end with
\* no selected scan and the data-incomplete flag set, wherever that scan stands in the
\* reading order and whatever the other scans hold.
C9_CompletenessGate ==
    Selected =>
        LET qmri == QmriScansOf(downloaded_jsons)
        IN (\E sc \in qmri : IsNone(sc.aqc_motion)) =>
              /\ IsNone(best_qalas_info)
              /\ qc_or_other_missing = TRUE

\* C9 witness: the scan without aqc_motion is read last, after a complete compliant
\* scan, every other field of both scans is populated, and the two passes have run.
C9_Witness ==
    /\ Selected
    /\ LET items == ScansOf(downloaded_jsons)
       IN /\ Len(items) = 2
          /\ items[1].scan.SeriesType = "qMRI"
          /\ items[2].scan.SeriesType = "qMRI"
          /\ ~with_qu_missing(items[1].scan)
          /\ items[1].scan.HBCD_compliant = Some("Yes")
          /\ IsNone(items[2].scan.aqc_motion)
          /\ items[2].scan.HBCD_compliant = Some("No")
          /\ ~IsNone(items[2].scan.QU_motion)
          /\ ~IsNone(items[2].scan.brain_SNR)
    /\ IsNone(best_qalas_info)
    /\ qc_or_other_missing = TRUE

\* C10: when every qMRI scan lacks QU_motion but has HBCD_compliant, aqc_motion and
\* brain_SNR, and at least one is compliant, the two passes select a scan, and it is a
\* compliant scan minimal in (aqc_motion, -brain_SNR).
C10_RelaxedPass ==
    Selected =>
        LET qmri == QmriScansOf(downloaded_jsons)
            compliant == CompliantOf(qmri)
            winners == WinnersOf(qmri, best_qalas_info)
        IN ((\A sc \in qmri : IsNone(sc.QU_motion) /\ ~without_qu_missing(sc))
              /\ compliant # {}) =>
              /\ qc_or_other_missing = FALSE
              /\ Cardinality(winners) = 1
              /\ \A w \in winners :
                    /\ w \in compliant
                    /\ \A sc \in compliant : LeqAqcSnr(w, sc)

\* C10 witness: two compliant scans without QU_motion tie on aqc_motion, the one read
\* second has the higher brain_SNR, and it is the one selected.
C10_Witness ==
    /\ Selected
    /\ LET items == ScansOf(downloaded_jsons)
       IN /\ Len(items) = 2
          /\ \A i \in 1..2 :
                /\ items[i].scan.SeriesType = "qMRI"
                /\ IsNone(items[i].scan.QU_motion)
                /\ items[i].scan.HBCD_compliant = Some("Yes")
                /\ items[i].scan.aqc_motion = Some(1)
          /\ items[1].scan.brain_SNR = Some(1)
          /\ items[2].scan.brain_SNR = Some(2)
          /\ ~IsNone(best_qalas_info)
          /\ Val(best_qalas_info).SeriesInstanceUID = items[2].scan.SeriesInstanceUID

\* two selection results name the same scan: same series, same archive to download
SameWinner(a, b) ==
    IF IsNone(a) \/ IsNone(b) THEN IsNone(a) /\ IsNone(b)
    ELSE /\ Val(a).SeriesInstanceUID = Val(b).SeriesInstanceUID
         /\ Val(a).archive_to_download = Val(b).archive_to_download

\* C27: selection is deterministic. For the QC jsons of a session, the two passes return
\* the same scan, with the same SeriesInstanceUID and the same archive to download, in
\* whatever order the jsons are read, also when several compliant scans have equal
\* scores in every field of the ranking.
C27_SelectionDeterministic ==
    Selected =>
        \A q \in GlobOrders(Range(downloaded_jsons)) :
            SameWinner(two_pass_selection(q).info, best_qalas_info)

\* lines 815-820 over the (scan, json) pairs the two passes visit
two_pass_over(items) ==
    LET r == with_qu_loop(items, 1, BestInit)
    IN IF IsNone(r.info) THEN without_qu_loop(items, 1, BestInit) ELSE r

\* the pairs with the QU_motion of scan i, where it has one, replaced by q[i]
WithQuMotion(items, q) ==
    [i \in 1..Len(items) |->
        [scan |-> [items[i].scan EXCEPT !.QU_motion = IF IsNone(@) THEN @ ELSE Some(q[i])],
         json |-> items[i].json]]

\* C33: partly missing QU_motion. When at least one qMRI scan of the session has no
\* QU_motion and every qMRI scan has HBCD_compliant, aqc_motion and brain_SNR, the
\* selected scan is a compliant scan minimal in (aqc_motion, -brain_SNR), there is none
\* when no scan is compliant, and the same scan is selected whatever QU_motion values
\* the scans that have one hold.
C33_PartlyMissingQu ==
    Selected =>
        LET items == ScansOf(downloaded_jsons)
            qmri == QmriScansOf(downloaded_jsons)
            compliant == CompliantOf(qmri)
            winners == WinnersOf(qmri, best_qalas_info)
        IN ((\E sc \in qmri : IsNone(sc.QU_motion))
              /\ (\A sc \in qmri : ~without_qu_missing(sc))) =>
              /\ best_qalas_info = two_pass_over(items).info
              /\ compliant = {} => IsNone(best_qalas_info)
              /\ compliant # {} =>
                    /\ qc_or_other_missing = FALSE
                    /\ Cardinality(winners) = 1
                    /\ \A w \in winners :
                          /\ w \in compliant
                          /\ \A sc \in compliant : LeqAqcSnr(w, sc)
              /\ \A q \in [1..Len(items) -> 1..MaxScore] :
                    SameWinner(two_pass_over(WithQuMotion(items, q)).info, best_qalas_info)

\* C33 witness: of three scans the non-compliant one has no QU_motion, the compliant
\* scan with the better QU_motion has the worse aqc_motion, and the two passes selected
\* the scan with the better aqc_motion.
C33_Witness ==
    /\ Selected
    /\ LET items == ScansOf(downloaded_jsons)
       IN /\ Len(items) = 3
          /\ \A i \in 1..3 : items[i].scan = MkScan(PartialQuScans[i], i)
          /\ ~IsNone(best_qalas_info)
          /\ Val(best_qalas_info).SeriesInstanceUID = items[2].scan.SeriesInstanceUID

-----------------------------------------------------------------------------
(* Properties of the outcomes of a session *)

\* the tracking entry of a session without a selected scan (lines 907-909)
NoWinnerEntry(jsons) == [jsons_tested |-> jsons]

\* C11: no qualifying scan is permanent. When every qMRI scan read for a session has the
\* fields the relaxed pass needs and none is compliant, the run puts in the tracking log
\* an entry that holds the QC jsons of the session and no selected scan, and a run that
\* completes persists it; in every run that finds such an entry, the same QC jsons in the
\* bucket and the session outside to_reprocess, the session is not evaluated.
C11_NoQualifyingScanPermanent ==
    /\ (pc = "session" /\ stage = "cleanup"
          /\ outcome[temp_session] \in {"no_scan", "incomplete"}) =>
          LET qmri == QmriScansOf(downloaded_jsons)
          IN (\A sc \in qmri : ~without_qu_missing(sc) /\ sc.HBCD_compliant # Some("Yes"))
                => /\ outcome[temp_session] = "no_scan"
                   /\ Entry(tracking_log_data, temp_session)
                         = Some(NoWinnerEntry(jsons_dict.files[temp_session]))
    /\ pc = "done" =>
          \A s \in Sessions :
              outcome[s] = "no_scan"
                 => Entry(tracking_log_file, s) = Some(NoWinnerEntry(jsons_dict.files[s]))
    /\ pc # "idle" =>
          \A s \in DOMAIN start_tracking \cap DOMAIN jsons_dict.files :
              (/\ DOMAIN start_tracking[s] = {"jsons_tested"}
               /\ Range(start_tracking[s].jsons_tested) = Range(jsons_dict.files[s])
               /\ s \notin start_reproc.to_reprocess)
              => events[s] = << >>

\* C11 witness: a completed run reached, with a free batch slot, a session whose entry
\* without a selected scan was written by an earlier run, found the same QC jsons and
\* did not evaluate it.
C11_Witness ==
    /\ pc = "done"
    /\ batch_limit > Len(sessions_to_evaluate)
    /\ \E s \in examined \cap DOMAIN start_tracking :
          /\ start_tracking[s] = NoWinnerEntry(jsons_dict.files[s])
          /\ s \notin start_reproc.to_reprocess
          /\ ~InSomeBucket(start_reproc, s)
          /\ events[s] = << >>
          /\ tracking_log_file[s] = start_tracking[s]

\* C12: data incomplete leaves state untouched. When the selection for a session ends
\* without a selected scan and with the data-incomplete flag set, the run goes on, and
\* the logs it writes have for that session the tracking entry (or none) and the
\* membership of the five lists of the reprocess log that the run read at its start.
C12_DataIncompleteUntouched ==
    pc = "done" =>
        \A s \in Sessions :
            outcome[s] = "incomplete" =>
                /\ Entry(tracking_log_file, s) = Entry(start_tracking, s)
                /\ \A b \in ReprocLists : s \in reproc_log_file[b] <=> s \in start_reproc[b]

\* the ways the processing of a session ends in a failure bucket
ClassifiedFailures ==
    {"missing_archive", "qalas_in_qc_but_not_archive", "non_conformant_tar_name",
     "symri_conversion_error", "too_few_niftis"}

\* the bucket of a classified failure (lines 836, 852, 871)
BucketOf(o) ==
    IF o \in {"missing_archive", "qalas_in_qc_but_not_archive"} THEN o
    ELSE "no_niftis_to_upload"

\* the four failure lists main() holds
FailureLists ==
    [new_archive_available |-> new_archive_available,
     qalas_in_qc_but_not_archive |-> qalas_in_qc_but_not_archive,
     no_niftis_to_upload |-> no_niftis_to_upload,
     missing_archive |-> missing_archive]

\* C13: classified failures go to their named bucket and nothing else. An archive that
\* cannot be fetched puts the session in missing_archive, a scan not found after
\* extraction in qalas_in_qc_but_not_archive, fewer than 3 images in
\* no_niftis_to_upload; the session's membership of the other buckets and its tracking
\* entry stay as the run read them, nothing is uploaded for it, and the run goes on to
\* the next session and, when it completes, writes the logs so.
C13_ClassifiedFailures ==
    \A s \in Sessions :
        outcome[s] \in ClassifiedFailures =>
            /\ In(s, FailureLists[BucketOf(outcome[s])])
            /\ \A b \in FailureBuckets \ {BucketOf(outcome[s])} :
                  In(s, FailureLists[b]) <=> s \in start_reproc[b]
            /\ Entry(tracking_log_data, s) = Entry(start_tracking, s)
            /\ ~In("upload", events[s])
            /\ pc \in {"session", "raised"} => temp_session # s
            /\ pc = "done" =>
                  /\ s \in reproc_log_file[BucketOf(outcome[s])]
                  /\ \A b \in FailureBuckets \ {BucketOf(outcome[s])} :
                        s \in reproc_log_file[b] <=> s \in start_reproc[b]
                  /\ Entry(tracking_log_file, s) = Entry(start_tracking, s)

\* C13 witness: a run that evaluated two sessions has completed; the archive of a session
\* that had a tracking entry and was in new_archive_available could not be fetched, and
\* the written log has the session in missing_archive as well.
C13_Witness ==
    /\ pc = "done"
    /\ Len(sessions_to_evaluate) = 2
    /\ \E s \in DOMAIN start_tracking :
          /\ outcome[s] = "missing_archive"
          /\ s \in start_reproc.new_archive_available
          /\ s \in reproc_log_file.missing_archive
          /\ s \in reproc_log_file.new_archive_available
          /\ tracking_log_file[s] = start_tracking[s]

\* C14: infrastructure failure aborts the batch. When the download of a session's QC
\* jsons or the upload of its outputs fails, main() ends by the exception: no later
\* session is processed and neither log is written, so the persisted logs are the ones
\* the run read, also when earlier sessions of the run had completed.
C14_InfrastructureAbort ==
    \A s \in Sessions :
        (/\ outcome[s] = "raised"
         /\ events[s] # << >>
         /\ Last(events[s]) \in {"fetch_qc", "upload"}) =>
            /\ pc = "raised"
            /\ temp_session = s
            /\ tracking_log_file = start_tracking
            /\ reproc_log_file = start_reproc
            /\ \A i \in (idx + 1)..Len(sessions_to_evaluate) :
                  /\ events[sessions_to_evaluate[i]] = << >>
                  /\ outcome[sessions_to_evaluate[i]] = "none"

\* C14 witness: the upload of the second session of a run failed after the first session
\* had changed the tracking log in memory; the persisted logs are still the ones read.
C14_Witness ==
    /\ pc = "raised"
    /\ idx = 2
    /\ Last(events[temp_session]) = "upload"
    /\ tracking_log_data # start_tracking
    /\ tracking_log_file = start_tracking
    /\ reproc_log_file = start_reproc

\* C15: no log write before the end of the batch. At every point of a run at which the
\* loop over the sessions to evaluate has not ended, and after an exception has ended the
\* run, the persisted tracking log and reprocess log are the ones the run read at its
\* start.
C15_NoLogWriteBeforeEnd ==
    pc \in {"session", "raised"} =>
        /\ tracking_log_file = start_tracking
        /\ reproc_log_file = start_reproc

\* C15 witness: the second session of a run is about to be uploaded, the first has
\* changed the tracking log in memory, and the persisted logs are still the ones read.
C15_Witness ==
    /\ pc = "session"
    /\ idx = 2
    /\ stage = "upload"
    /\ tracking_log_data # start_tracking
    /\ tracking_log_file = start_tracking
    /\ reproc_log_file = start_reproc

\* C16: tracking-entry lifecycle. In a run the tracking entry of a session is created or
\* changed, in memory or on disk, only after the upload of that session succeeded in the
\* run or after its selection ended without a selected scan and with the data-incomplete
\* flag clear; after data incomplete, a missing archive, a scan not found, too few images
\* or an exception the entries are the ones the run read.
C16_TrackingLifecycle ==
    pc # "idle" =>
        \A s \in Sessions :
            /\ Entry(tracking_log_data, s) # Entry(start_tracking, s) =>
                  \/ /\ outcome[s] = "success"
                     /\ In("upload", events[s])
                     /\ Last(events[s]) = "commit"
                  \/ /\ outcome[s] = "no_scan"
                     /\ tracking_log_data[s] = NoWinnerEntry(jsons_dict.files[s])
            /\ Entry(tracking_log_file, s) # Entry(start_tracking, s) =>
                  /\ pc \in {"save_reproc", "done"}
                  /\ outcome[s] \in {"success", "no_scan"}
                  /\ tracking_log_file[s] = tracking_log_data[s]

\* C16 witness: a completed run uploaded one session and found another data-incomplete;
\* the written tracking log has a new entry for the first and none for the second.
C16_Witness ==
    /\ pc = "done"
    /\ \E s, t \in Sessions :
          /\ outcome[s] = "success"
          /\ s \notin DOMAIN start_tracking
          /\ s \in DOMAIN tracking_log_file
          /\ outcome[t] = "incomplete"
          /\ t \notin DOMAIN tracking_log_file

\* C17: log monotonicity. After a session succeeded in a run its jsons_tested is exactly
\* the list of QC jsons grouped for the session in that run, also when an earlier run had
\* recorded another list; at any time the jsons_tested of an entry is either the list
\* the run read or the list grouped in this run, never a part or a merge of them.
C17_LogMonotonicity ==
    pc # "idle" =>
        \A s \in Sessions :
            /\ outcome[s] = "success" =>
                  /\ tracking_log_data[s].jsons_tested = jsons_dict.files[s]
                  /\ pc = "done" => tracking_log_file[s].jsons_tested = jsons_dict.files[s]
            /\ s \in DOMAIN tracking_log_data =>
                  \/ /\ s \in DOMAIN start_tracking
                     /\ tracking_log_data[s].jsons_tested = start_tracking[s].jsons_tested
                  \/ /\ s \in DOMAIN jsons_dict.files
                     /\ tracking_log_data[s].jsons_tested = jsons_dict.files[s]

\* C17 witness: a session uploaded by an earlier run with one QC json is uploaded again
\* by a run that groups two QC jsons for it; the written entry holds the two.
C17_Witness ==
    /\ pc = "done"
    /\ \E s \in DOMAIN start_tracking :
          /\ outcome[s] = "success"
          /\ "archive_to_download" \in DOMAIN start_tracking[s]
          /\ Len(start_tracking[s].jsons_tested) = 1
          /\ Len(jsons_dict.files[s]) = 2
          /\ tracking_log_file[s].jsons_tested = jsons_dict.files[s]

\* C18: batch cap. In a run the number of sessions selected for evaluation never
\* exceeds the batch limit, whether they were taken for being in to_reprocess or for
\* having no tracking entry, for every batch limit from 0 on.
C18_BatchCap ==
    pc # "idle" => Len(sessions_to_evaluate) <= batch_limit


\* whether each qMRI scan in the QC jsons listed for a session has the fields the
\* selection needs
CompleteQcData(s) ==
    \A i \in 1..Len(jsons_dict.files[s]) :
        LET content == json_content[jsons_dict.files[s][i]]
        IN \A j \in 1..Len(content) :
               content[j].SeriesType = "qMRI" => ~without_qu_missing(content[j])

\* a session of the listing that the run found with no tracking entry, in no failure
\* bucket and with complete QC data, and did not evaluate
Deferred(s) ==
    /\ s \in DOMAIN jsons_dict.files
    /\ s \notin DOMAIN start_tracking
    /\ ~InSomeBucket(start_reproc, s)
    /\ CompleteQcData(s)
    /\ events[s] = << >>

\* C19: deferred sessions are eventually reached. Under repeated runs against an
\* unchanged listing with a batch limit of one or more, every session that has no
\* tracking entry, is in no failure bucket and has complete QC data is evaluated in
\* some run: a run that completes and leaves such a session unevaluated has not left
\* the logs and the working directories as it found them, since the next run would
\* then start from the same state, select the same sessions and leave it out again.
C19_DeferredReached ==
    (pc = "done" /\ batch_limit >= 1) =>
        \A s \in Sessions :
            Deferred(s) => ~(/\ tracking_log_file = start_tracking
                            /\ reproc_log_file = start_reproc
                            /\ session_dir = start_session_dir)

\* the ways the processing of a session ends without an exception
EndedOutcomes == {"success", "no_scan", "incomplete"} \cup ClassifiedFailures

\* C20: working-directory cleanup. Unless keep_work_dirs is set, the working directory
\* of a session no longer exists once the processing of the session in the run has
\* ended, whether it ended in success, no qualifying scan, data incomplete or a
\* classified failure.
C20_WorkDirCleanup ==
    (pc # "idle" /\ keep_work_dirs = FALSE) =>
        \A s \in Sessions :
            (outcome[s] \in EndedOutcomes /\ ~(pc = "session" /\ temp_session = s))
                => session_dir[s] = {}

\* C25: bucket entries change only through their events. A run puts a session in
\* missing_archive, qalas_in_qc_but_not_archive or no_niftis_to_upload only when the
\* processing of that session in that run ended in the matching classified failure,
\* and a session that one of the four failure buckets listed when the run started is
\* still listed there unless the session was uploaded in that run; this holds for the
\* lists in memory and for the reprocess log a completed run writes.
C25_BucketEvents ==
    pc # "idle" =>
        \A s \in Sessions :
            /\ \A b \in FailureBuckets \ {"new_archive_available"} :
                  /\ (In(s, FailureLists[b]) /\ s \notin start_reproc[b])
                        => (outcome[s] \in ClassifiedFailures /\ BucketOf(outcome[s]) = b)
                  /\ (pc = "done" /\ s \in reproc_log_file[b] /\ s \notin start_reproc[b])
                        => (outcome[s] \in ClassifiedFailures /\ BucketOf(outcome[s]) = b)
            /\ \A b \in FailureBuckets :
                  /\ (s \in start_reproc[b] /\ ~In(s, FailureLists[b]))
                        => In("upload", events[s]) /\ outcome[s] = "success"
                  /\ (pc = "done" /\ s \in start_reproc[b] /\ s \notin reproc_log_file[b])
                        => outcome[s] = "success"

\* C25 witness: a completed run uploaded a session that no_niftis_to_upload listed when
\* the run started, and wrote a reprocess log that no longer lists it there.
C25_Witness ==
    /\ pc = "done"
    /\ \E s \in Sessions :
          /\ s \in start_reproc.no_niftis_to_upload
          /\ s \notin reproc_log_file.no_niftis_to_upload
          /\ outcome[s] = "success"

\* C26: the commit of no qualifying scan does not touch the reprocess buckets. When the
\* evaluation of a session ends in no qualifying scan, the reprocess log written by the
\* run has the session in the same of the five lists, to_reprocess included, as the
\* log read at the start of the run.
C26_NoScanKeepsBuckets ==
    pc = "done" =>
        \A s \in Sessions :
            outcome[s] = "no_scan" =>
                \A b \in ReprocLists : s \in reproc_log_file[b] <=> s \in start_reproc[b]

\* C28: buckets are mutually exclusive. After any sequence of runs between which the
\* operator only adds sessions to to_reprocess, the reprocess log lists no session in
\* more than one of new_archive_available, qalas_in_qc_but_not_archive,
\* no_niftis_to_upload and missing_archive.
C28_BucketsExclusive ==
    \A s \in Sessions :
        Cardinality({ b \in FailureBuckets : s \in reproc_log_file[b] }) <= 1

\* C24: both logs are append-versioned. A run reads the latest version of each log and
\* writes a new version of each; no step of a run modifies or overwrites a version of
\* the reprocess log that was persisted before.
C24_AppendVersioned ==
    [][(pc # "idle" /\ reproc_log_exists) => reproc_log_file' = reproc_log_file]_vars

\* C29: a failure of the conversion stage uses no bucket. When the SyMRI conversion
\* does not produce the expected maps, the run adds the session to none of the reprocess
\* buckets and goes on with the next session.
C29_ConversionFailureNoBucket ==
    \A s \in Sessions :
        outcome[s] = "symri_conversion_error" =>
            /\ \A b \in FailureBuckets : In(s, FailureLists[b]) <=> s \in start_reproc[b]
            /\ pc \in {"session", "raised"} => temp_session # s
            /\ pc = "done" =>
                  \A b \in FailureBuckets : s \in reproc_log_file[b] <=> s \in start_reproc[b]

\* C30: the extract-and-locate stage has a single failure transition. Whenever the
\* stage does not end with the one folder of the selected scan (no folder matches the
\* selected series and study, more than one matches, or the archive cannot be read),
\* the session is added to qalas_in_qc_but_not_archive and the run goes on with the
\* next session: the stage hands exactly one folder to the conversion and never
\* aborts the run.
C30_ExtractSingleFailure ==
    /\ (pc = "session" /\ stage = "convert") => qalas_folders = 1
    /\ pc = "raised" =>
          LET e == events[temp_session]
          IN /\ Last(e) # "unpack"
             /\ Last(e) = "convert" => qalas_folders = 1
    /\ \A s \in Sessions :
          (In("unpack", events[s]) /\ ~In("convert", events[s])
             /\ ~(pc = "session" /\ temp_session = s))
            => In(s, qalas_in_qc_but_not_archive)

\* the stages of the processing of a session, in the order of lines 797-900
StageOrder == << "fetch_qc", "select", "fetch_archive", "unpack", "convert", "upload", "commit" >>

IsPrefix(a, b) == Len(a) <= Len(b) /\ a = SubSeq(b, 1, Len(a))

\* C31: stage ordering within a session. The stages a session goes through in a run
\* are an initial part of metadata fetch, select, archive fetch, extract, convert,
\* upload, commit, each at most once; the archive is fetched only when the selection
\* produced a scan, the upload is attempted only when at least 3 images were generated,
\* and a tracking entry with a selected scan is written only after the upload of the
\* session succeeded in the same run.
C31_StageOrdering ==
    pc # "idle" =>
        /\ \A s \in Sessions : IsPrefix(events[s], StageOrder)
        /\ (pc = "session" /\ stage \in {"fetch_archive", "unpack", "convert", "upload", "commit"})
              => ~IsNone(best_qalas_info)
        /\ (pc = "session" /\ stage \in {"upload", "commit"})
              => output_info.num_niftis_generated >= MinNiftis
        /\ \A s \in Sessions :
              (/\ Entry(tracking_log_data, s) # Entry(start_tracking, s)
               /\ tracking_log_data[s] # NoWinnerEntry(jsons_dict.files[s]))
                 => /\ events[s] = StageOrder
                    /\ outcome[s] = "success"

\* C31 witness: a session went through the seven stages and its new tracking entry, with
\* a selected scan, is in the tracking log the run keeps in memory.
C31_Witness ==
    /\ pc # "idle"
    /\ \E s \in Sessions :
          /\ events[s] = StageOrder
          /\ Entry(tracking_log_data, s) # Entry(start_tracking, s)
          /\ "SeriesInstanceUID" \in DOMAIN tracking_log_data[s]


\* C32: the flush at the end of a run is atomic over both logs. No state of the files
\* has the tracking log written by a run together with the reprocess log of before
\* the run, when the run has another content to write to the reprocess log.
C32_FlushAtomic ==
    ~ (/\ pc = "save_reproc"
       /\ tracking_log_file = tracking_log_data
       /\ reproc_log_exists
       /\ reproc_log_file = start_reproc
       /\ reproc_log_data # start_reproc)


\* the number of entries of the dcm_maps_dir of a session
DcmMapsCount(s) == CHOOSE n \in MapCounts : DcmMapsEntries(n) \in session_dir[s]

\* the conversion of session s ran in this run, in a dcm_maps_dir it created
Converted(s) ==
    /\ pc # "idle"
    /\ In("convert", events[s])
    /\ "dcm_maps_dir" \notin start_session_dir[s]
    /\ "dcm_maps_dir" \in session_dir[s]

\* C34: the file count is the sole completion oracle of the map converter. A session is
\* at the upload or past it only when the dcm_maps_dir of its conversion holds exactly 7
\* entries; with fewer or with more entries the session is put in no_niftis_to_upload
\* as a conversion failure, is not uploaded and gets no tracking entry.
C34_FileCountOracle ==
    \A s \in Sessions :
        Converted(s) =>
            /\ (In("upload", events[s]) \/ outcome[s] = "too_few_niftis")
                  => DcmMapsCount(s) = ExpectedMaps
            /\ (pc = "session" /\ stage \in {"upload", "commit"} /\ temp_session = s)
                  => DcmMapsCount(s) = ExpectedMaps
            /\ DcmMapsCount(s) # ExpectedMaps =>
                  /\ outcome[s] = "symri_conversion_error"
                  /\ In(s, no_niftis_to_upload)
                  /\ ~In("upload", events[s])
                  /\ Entry(tracking_log_data, s) = Entry(start_tracking, s)

\* C34 witness: the dcm_maps_dir of a session holds 8 entries after its conversion and
\* the session is in no_niftis_to_upload without an upload.
C34_Witness ==
    \E s \in Sessions :
        /\ Converted(s)
        /\ DcmMapsCount(s) = 8
        /\ In(s, no_niftis_to_upload)
        /\ ~In("upload", events[s])


\* the outcomes of an attempt that ends without success
Unsuccessful == ClassifiedFailures \cup {"incomplete", "no_scan"}

\* a session of the listing that the selection loop did not reach (line 787-788)
NotReached(s) == In(s, jsons_dict.order) /\ s \notin examined

\* C35: fate of a to_reprocess entry after an attempt. In the reprocess log a run writes,
\* a session that has a tracking entry, was listed in to_reprocess and was evaluated with
\* an attempt that ended without success is absent from to_reprocess, and a session of
\* to_reprocess that the selection did not reach because of the batch cap is still listed.
C35_ToReprocessFate ==
    pc = "done" =>
        \A s \in start_reproc.to_reprocess :
            /\ (s \in DOMAIN start_tracking /\ In(s, sessions_to_evaluate)
                  /\ outcome[s] \in Unsuccessful)
                  => s \notin reproc_log_file.to_reprocess
            /\ NotReached(s) => s \in reproc_log_file.to_reprocess

\* C35 witness: a run wrote its logs after the batch cap stopped the selection before a
\* tracked session of to_reprocess, which is still listed.
C35_Witness ==
    /\ pc = "done"
    /\ \E s \in start_reproc.to_reprocess :
          /\ s \in DOMAIN start_tracking
          /\ NotReached(s)
          /\ batch_limit >= 1
          /\ Len(sessions_to_evaluate) = batch_limit
          /\ s \in reproc_log_file.to_reprocess

\* C35 second witness: a tracked session of to_reprocess was attempted, the attempt
\* ended in a classified failure, and the written log does not list it in to_reprocess.
C35_Witness_attempted ==
    /\ pc = "done"
    /\ \E s \in start_reproc.to_reprocess :
          /\ s \in DOMAIN start_tracking
          /\ In(s, sessions_to_evaluate)
          /\ outcome[s] \in ClassifiedFailures
          /\ s \notin reproc_log_file.to_reprocess


\* C36: leftover artifacts do not break a re-attempt. When a session of
\* no_niftis_to_upload whose earlier attempt left its dcm_maps_dir in the working
\* directory is attempted again through to_reprocess and its conversion starts with the
\* one folder of the selected scan, the run does not abort in that conversion.
C36_LeftoversHarmless ==
    \A s \in Sessions :
        (/\ pc # "idle"
         /\ s \in start_reproc.to_reprocess
         /\ s \in start_reproc.no_niftis_to_upload
         /\ "dcm_maps_dir" \in start_session_dir[s]
         /\ events[s] # << >>
         /\ Last(events[s]) = "convert"
         /\ qalas_folders = 1)
           => outcome[s] # "raised"


-----------------------------------------------------------------------------
(* SpecNames: one run of main() over QC jsons whose names do and do not follow the
   naming scheme, the listing coming in any order *)

\* two QC jsons of one session with a conformant name, one of a session whose first
\* token is too short and one of a session whose third token does not start with V
Name_A == "SITE00001_123456_V03_A_mripcqc_info.json"
Name_B == "SITE00001_123456_V03_B_mripcqc_info.json"
Name_Short == "SITE2_123456_V03_A_mripcqc_info.json"
Name_NoV == "SITE00001_123456_W03_A_mripcqc_info.json"

NameJsons == { Name_A, Name_B, Name_Short, Name_NoV }
NameSessions == { file_split(f) : f \in NameJsons }

\* every QC json holds one complete qMRI scan: compliant but for Name_B, and without
\* QU_motion in Name_NoV
NameContent ==
    (Name_A :> << QcScan(Some("Yes"), Some(1), Some(1), Some(30), "1.2.840.1") >>)
    @@ (Name_B :> << QcScan(Some("No"), Some(1), Some(1), Some(20), "1.2.840.2") >>)
    @@ (Name_Short :> << QcScan(Some("Yes"), Some(1), Some(1), Some(20), "1.2.840.3") >>)
    @@ (Name_NoV :> << QcScan(Some("Yes"), None, Some(1), Some(20), "1.2.840.4") >>)

\* lines 372-373 applied to a session name: three tokens of 9, 6 and 3 characters,
\* the third starting with V
ConformantName(name) ==
    LET split_name == Split(name, "_")
    IN /\ Len(split_name) = 3
       /\ Len(split_name[1]) = 9
       /\ Len(split_name[2]) = 6
       /\ Len(split_name[3]) = 3
       /\ SubSeq(split_name[3], 1, 1) = "V"

NamesInit ==
    /\ bucket_jsons \in (SUBSET NameJsons) \ {{}}
    /\ json_content = NameContent
    /\ jsons_dict = EmptyDict
    /\ tracking_log_file = << >>
    /\ reproc_log_exists = FALSE
    /\ reproc_log_file = EmptyReproc
    /\ session_dir = [s \in NameSessions |-> {}]
    /\ qc_jsons_files = [s \in NameSessions |-> {}]
    /\ pc = "idle"
    /\ stage = "none"
    /\ batch_limit = 0
    /\ tracking_log_data = << >>
    /\ to_reprocess = << >>
    /\ new_archive_available = << >>
    /\ qalas_in_qc_but_not_archive = << >>
    /\ no_niftis_to_upload = << >>
    /\ missing_archive = << >>
    /\ reprocess_attempted = << >>
    /\ sessions_to_skip = << >>
    /\ sessions_to_evaluate = << >>
    /\ idx = 1
    /\ downloaded_jsons = << >>
    /\ best_qalas_info = None
    /\ qc_or_other_missing = FALSE
    /\ qalas_folders = 0
    /\ output_info = NoOutput
    /\ runs = 1
    /\ env_changes = 0
    /\ start_tracking = << >>
    /\ start_reproc = EmptyReproc
    /\ start_session_dir = [s \in NameSessions |-> {}]
    /\ examined = {}
    /\ skipped = {}
    /\ events = [s \in NameSessions |-> << >>]
    /\ outcome = [s \in NameSessions |-> "none"]
    /\ prev_succeeded = {}
    /\ LegacyIdle
    /\ TreeIdle

\* lines 696-791: the run starts; the listing comes in any order
NamesStart ==
    /\ pc = "idle"
    /\ \E files \in GlobOrders(bucket_jsons), custom_processing_batch_size \in 1..MaxBatch :
          ReadLogsAndSelect(GroupJsons(files, EmptyDict), custom_processing_batch_size)
    /\ UNCHANGED << runs, events, outcome >>
    /\ UNCHANGED other_vars

NamesNext ==
    \/ NamesStart
    \/ FetchQcJsons
    \/ SelFirstPass
    \/ SelSecondPass
    \/ NoWinner
    \/ FetchArchive
    \/ UnpackArchive
    \/ ConvertSingleTar
    \/ PushToS3
    \/ CommitSuccess
    \/ CleanUp
    \/ SaveTrackingLog
    \/ SaveReprocLog

SpecNames == NamesInit /\ [][NamesNext]_vars

-----------------------------------------------------------------------------
(* Properties of the names of sessions and QC jsons *)

\* the steps of the processing of a session after the selection of its scan
ProcessingSteps == { "fetch_archive", "unpack", "convert", "upload" }

\* C21: unparseable session names. A session whose name is not three tokens of 9, 6
\* and 3 characters separated by underscores, the third starting with V, is never
\* processed: no archive fetch, extraction, conversion or upload is performed for it,
\* and it is put in none of missing_archive, qalas_in_qc_but_not_archive and
\* no_niftis_to_upload.
C21_UnparseableNeverProcessed ==
    \A s \in DOMAIN events :
        ~ConformantName(s) =>
            /\ \A e \in ProcessingSteps : ~In(e, events[s])
            /\ ~In(s, missing_archive)
            /\ ~In(s, qalas_in_qc_but_not_archive)
            /\ ~In(s, no_niftis_to_upload)

\* C22: grouping excludes invalid names. A QC json whose first three tokens are not of
\* 9, 6 and 3 characters with the third starting with V is put in no group of
\* jsons_dict, so that no session key built from such a name is offered for evaluation.
C22_GroupingExcludesInvalid ==
    /\ \A k \in DOMAIN jsons_dict.files :
          \A i \in 1..Len(jsons_dict.files[k]) :
              ConformantName(file_split(jsons_dict.files[k][i]))
    /\ \A i \in 1..Len(sessions_to_evaluate) : ConformantName(sessions_to_evaluate[i])

\* the first three tokens of a file name
FirstTokens(temp_file) == Take(Split(temp_file, "_"), 3)

\* C23: grouping is a partition by key and does not depend on the order of the
\* listing. Every file of the listing is in exactly one group, the one keyed
\* by the join of its first three tokens; two files share a group exactly when their
\* first three tokens are equal; and the files of each key are the same set whatever
\* the order in which the listing was read.
C23_GroupingPartition ==
    pc # "idle" =>
        /\ DOMAIN jsons_dict.files = { Join("_", FirstTokens(f)) : f \in bucket_jsons }
        /\ Range(jsons_dict.order) = DOMAIN jsons_dict.files
        /\ \A k \in DOMAIN jsons_dict.files :
              /\ Range(jsons_dict.files[k])
                    = { f \in bucket_jsons : Join("_", FirstTokens(f)) = k }
              /\ Len(jsons_dict.files[k]) = Cardinality(Range(jsons_dict.files[k]))
        /\ \A f, g \in bucket_jsons :
              (\E k \in DOMAIN jsons_dict.files :
                  f \in Range(jsons_dict.files[k]) /\ g \in Range(jsons_dict.files[k]))
                 <=> FirstTokens(f) = FirstTokens(g)

\* C23 witness: the four files were listed with Name_B before Name_A and the session of
\* the invalid name first, and were grouped.
C23_Witness ==
    /\ pc = "session"
    /\ bucket_jsons = NameJsons
    /\ jsons_dict.files[file_split(Name_A)] = << Name_B, Name_A >>
    /\ jsons_dict.order[1] = file_split(Name_Short)
-----------------------------------------------------------------------------
(* SpecLegacy: the runs of process_new_subjects of create_relaxometry_maps.py over a
   bucket of three dicom archives, each more than one day old *)

\* the number of times process_new_subjects is started
MaxLegacyRuns == 2
\* batch_size is drawn from 1..MaxLegacyBatch
MaxLegacyBatch == 2

\* the keys of the input bucket, in the order the paginator lists them
LegacyKeys ==
    << "TIUFL0008_880852_V02.tar.gz", "TIUFL0008_880853_V03.tar.gz", "phantom_scan.tar.gz" >>

\* what unpack_qalas_from_targz finds in an archive: it cannot be read, it holds no
\* QALAS series, it holds one
ArchiveKinds == {"unreadable", "no_qalas", "one_qalas"}

\* s3_cache_dir (line 640), without its time stamp
S3CacheDir == "s3_cache"

\* create_relaxometry_maps.py, lines 414-433: no test of the length of the session label
legacy_targz_to_sub_ses_labels(targz_name) ==
    LET split_name == Split(Last(Split(targz_name, "/")), "_")
    IN IF /\ Len(split_name) >= 3
          /\ Len(split_name[1]) = 9
          /\ Len(split_name[2]) = 6
          /\ SubSeq(split_name[3], 1, 1) = "V"
       THEN IF Len(split_name) = 3
            THEN [sub_label |-> Some(split_name[2]),
                  ses_label |-> Some(Split(split_name[3], ".")[1])]
            ELSE [sub_label |-> Some(split_name[2]), ses_label |-> Some(split_name[3])]
       ELSE [sub_label |-> None, ses_label |-> None]

\* key_name[extension_offset:] == extension
EndsWith(key_name, extension) ==
    /\ Len(key_name) >= Len(extension)
    /\ SubSeq(key_name, Len(key_name) - Len(extension) + 1, Len(key_name)) = extension

\* grab_from_s3, lines 308-323: the keys to download
grab_keys(processed_tgz_files, batch_size) ==
    Take(SelectSeq(LegacyKeys,
                   LAMBDA key_name : /\ key_name \in dicom_bucket
                                     /\ EndsWith(key_name, "gz")
                                     /\ key_name \notin processed_tgz_files),
         batch_size)

\* lines 625-646
GrabFromS3 ==
    /\ legacy_pc = "idle"
    /\ legacy_runs < MaxLegacyRuns
    /\ legacy_runs' = legacy_runs + 1
    /\ \E batch_size \in 1..MaxLegacyBatch :
          LET keys == grab_keys(Range(tracking_log_csv), batch_size)
          IN /\ targz_paths' = [i \in 1..Len(keys) |-> S3CacheDir \o "/" \o keys[i]]
             /\ legacy_pc' = IF keys = << >> THEN "idle" ELSE "convert"
    /\ output_infos' = << >>
    /\ upload_status' = << >>
    /\ pushed' = {}
    /\ UNCHANGED << dicom_bucket, archive_kind, derivatives_bucket, tracking_log_csv >>
    /\ UNCHANGED << update_vars, tree_vars >>

\* the counts of entries of a dcm maps folder after the SyMRI container has run, and the
\* counts of niftis dcm2bids leaves
LegacyExpectedMaps == 6
LegacyMapCounts == {5, 6, 7}
LegacyNiftiCounts == {0, 4}

\* the dictionary convert_single_tar returns (lines 86-204), without the paths and the date
LegacyOutputInfo(tar_name, series, num_qalas_scans, num_niftis_generated, error) ==
    [tar_name |-> tar_name,
     converted_series_name |-> series,
     num_qalas_scans |-> num_qalas_scans,
     num_niftis_generated |-> num_niftis_generated,
     symri_conversion_error |-> error]

\* lines 652-660: one iteration of the loop over targz_paths
LegacyConvertSingleTar ==
    /\ legacy_pc = "convert"
    /\ LET temp_path == targz_paths[Len(output_infos) + 1]
           tar_name == Last(Split(temp_path, "/"))
           labels == legacy_targz_to_sub_ses_labels(temp_path)
       IN \E maps \in LegacyMapCounts, made \in LegacyNiftiCounts :
             output_infos' = Append(output_infos,
                 IF IsNone(labels.sub_label)
                 THEN LegacyOutputInfo(tar_name, "-1", 0, 0, 0)
                 ELSE IF archive_kind[tar_name] = "unreadable"
                 THEN LegacyOutputInfo(tar_name, "-1", -1, 0, 1)
                 ELSE IF archive_kind[tar_name] = "no_qalas"
                 THEN LegacyOutputInfo(tar_name, "-1", 0, 0, 0)
                 ELSE IF maps = LegacyExpectedMaps
                 THEN LegacyOutputInfo(tar_name, << "series_7" >>, 1, made, 0)
                 ELSE LegacyOutputInfo(tar_name, << "series_7" >>, 1, 0, 1))
    /\ legacy_pc' = IF Len(output_infos') = Len(targz_paths) THEN "upload" ELSE "convert"
    /\ UNCHANGED << dicom_bucket, archive_kind, derivatives_bucket, tracking_log_csv,
                    targz_paths, upload_status, legacy_runs, pushed >>
    /\ UNCHANGED << update_vars, tree_vars >>

\* lines 676-692: one iteration of the upload loop; push_to_s3 returns True or False
LegacyUpload ==
    /\ legacy_pc = "upload"
    /\ LET i == Len(upload_status) + 1
       IN IF output_infos[i].symri_conversion_error = 1
          THEN /\ upload_status' = Append(upload_status, TRUE)
               /\ UNCHANGED << derivatives_bucket, pushed >>
          ELSE IF output_infos[i].converted_series_name # "-1"
          THEN \/ /\ derivatives_bucket' = derivatives_bucket \cup {output_infos[i].tar_name}
                  /\ pushed' = pushed \cup {output_infos[i].tar_name}
                  /\ upload_status' = Append(upload_status, TRUE)
               \/ /\ upload_status' = Append(upload_status, FALSE)
                  /\ UNCHANGED << derivatives_bucket, pushed >>
          ELSE /\ upload_status' = Append(upload_status, TRUE)
               /\ UNCHANGED << derivatives_bucket, pushed >>
    /\ legacy_pc' = IF Len(upload_status') = Len(output_infos) THEN "log" ELSE "upload"
    /\ UNCHANGED << dicom_bucket, archive_kind, tracking_log_csv, targz_paths, output_infos,
                    legacy_runs >>
    /\ UNCHANGED << update_vars, tree_vars >>

\* update_tracking_log, lines 464-479: the tar names appended to the tracking log
RECURSIVE appended_rows(_, _, _)
appended_rows(infos, status, i) ==
    IF i > Len(infos) THEN << >>
    ELSE (IF status[i] = TRUE THEN << infos[i].tar_name >> ELSE << >>)
         \o appended_rows(infos, status, i + 1)

\* update_tracking_log as called at line 701
update_tracking_log ==
    /\ legacy_pc = "log"
    /\ tracking_log_csv' = tracking_log_csv \o appended_rows(output_infos, upload_status, 1)
    /\ legacy_pc' = "clean_up"
    /\ UNCHANGED << dicom_bucket, archive_kind, derivatives_bucket, targz_paths,
                    output_infos, upload_status, legacy_runs, pushed >>
    /\ UNCHANGED << update_vars, tree_vars >>

\* lines 709-718
LegacyCleanUp ==
    /\ legacy_pc = "clean_up"
    /\ legacy_pc' = "idle"
    /\ targz_paths' = << >>
    /\ output_infos' = << >>
    /\ upload_status' = << >>
    /\ pushed' = {}
    /\ UNCHANGED << dicom_bucket, archive_kind, derivatives_bucket, tracking_log_csv,
                    legacy_runs >>
    /\ UNCHANGED << update_vars, tree_vars >>

\* the script is stopped during the processing or the upload, before the tracking log
\* is written (docstring, lines 581-584)
LegacyStopped ==
    /\ legacy_pc \in {"convert", "upload"}
    /\ legacy_pc' = "idle"
    /\ targz_paths' = << >>
    /\ output_infos' = << >>
    /\ upload_status' = << >>
    /\ pushed' = {}
    /\ UNCHANGED << dicom_bucket, archive_kind, derivatives_bucket, tracking_log_csv,
                    legacy_runs >>
    /\ UNCHANGED << update_vars, tree_vars >>

LegacyInit ==
    /\ bucket_jsons = {}
    /\ json_content = BucketContent
    /\ tracking_log_file = << >>
    /\ reproc_log_exists = FALSE
    /\ reproc_log_file = EmptyReproc
    /\ session_dir = [s \in Sessions |-> {}]
    /\ qc_jsons_files = [s \in Sessions |-> {}]
    /\ pc = "idle"
    /\ NoProcess
    /\ runs = 0
    /\ env_changes = 0
    /\ prev_succeeded = {}
    /\ dicom_bucket = Range(LegacyKeys)
    /\ archive_kind \in [Range(LegacyKeys) -> ArchiveKinds]
    /\ derivatives_bucket = {}
    /\ tracking_log_csv = << >>
    /\ targz_paths = << >>
    /\ output_infos = << >>
    /\ upload_status = << >>
    /\ legacy_pc = "idle"
    /\ legacy_runs = 0
    /\ pushed = {}
    /\ TreeIdle

LegacyNext ==
    \/ GrabFromS3
    \/ LegacyConvertSingleTar
    \/ LegacyUpload
    \/ update_tracking_log
    \/ LegacyCleanUp
    \/ LegacyStopped

SpecLegacy == LegacyInit /\ [][LegacyNext]_vars

\* C37: tracking log of the legacy workflow. When process_new_subjects has written the
\* new tracking log, an archive of the run is in it if and only if its outputs were
\* uploaded with success or no QALAS scan was found in it; an archive whose processing or
\* upload did not complete is not in it (so that the next run takes it again).
C37_LegacyTrackingLog ==
    legacy_pc = "clean_up" =>
        \A i \in 1..Len(output_infos) :
            LET tar_name == output_infos[i].tar_name
            IN In(tar_name, tracking_log_csv)
                  <=> \/ tar_name \in pushed
                      \/ archive_kind[tar_name] = "no_qalas"

-----------------------------------------------------------------------------
(* SpecTree: find_terminal_folders (update.py, lines 50-73) called on a folder of a
   directory tree of depth at most MaxDepth; a path is the sequence of its components *)

\* the depth of the directory trees
MaxDepth == 2
\* a folder holds 0..MaxFiles files
MaxFiles == 1
\* the names a folder can have
FolderNames == {"a", "b"}

\* the paths of depth at most MaxDepth, the root being << >>
TreePaths == UNION { [1..n -> FolderNames] : n \in 0..MaxDepth }

\* os.path.dirname
Parent(p) == SubSeq(p, 1, Len(p) - 1)

\* the sets of folders that make a tree: the root, and every folder with its parent
Trees ==
    { t \in SUBSET TreePaths : /\ << >> \in t
                               /\ \A p \in t : p # << >> => Parent(p) \in t }

\* os.listdir of every folder of tree t that holds files[p] files in folder p
Listdir(t, files) ==
    [p \in t |-> [dirs |-> { n \in FolderNames : Append(p, n) \in t },
                  files |-> files[p]]]

\* lines 59-73; the loop of lines 62-67 over the folders of dir_contents, in some order
RECURSIVE find_terminal_folders(_, _), find_terminal_loop(_, _, _)
find_terminal_folders(path, folders) ==
    LET dir_contents == os_listdir[path]
    IN IF Cardinality(dir_contents.dirs) + dir_contents.files > 0
       THEN IF dir_contents.dirs # {}
            THEN find_terminal_loop(path, SetToSeq(dir_contents.dirs), folders)
            ELSE folders \cup {path}
       ELSE folders \cup {path}
find_terminal_loop(path, names, folders) ==
    IF names = << >> THEN folders
    ELSE LET new_path == Append(path, Head(names))
             new_folders == find_terminal_folders(new_path, folders)
         IN find_terminal_loop(path, Tail(names), folders \cup new_folders)

TreeInit ==
    /\ \E t \in Trees : \E files \in [t -> 0..MaxFiles] :
          /\ os_listdir = Listdir(t, files)
          /\ ftf_path \in t
    /\ ftf_folders = None
    /\ bucket_jsons = {}
    /\ json_content = BucketContent
    /\ tracking_log_file = << >>
    /\ reproc_log_exists = FALSE
    /\ reproc_log_file = EmptyReproc
    /\ session_dir = [s \in Sessions |-> {}]
    /\ qc_jsons_files = [s \in Sessions |-> {}]
    /\ pc = "idle"
    /\ NoProcess
    /\ runs = 0
    /\ env_changes = 0
    /\ prev_succeeded = {}
    /\ LegacyIdle

\* the call find_terminal_folders(path), folders being the empty set of the default
FindTerminalFolders ==
    /\ IsNone(ftf_folders)
    /\ ftf_folders' = Some(find_terminal_folders(ftf_path, {}))
    /\ UNCHANGED << os_listdir, ftf_path >>
    /\ UNCHANGED << update_vars, legacy_vars >>

TreeNext == FindTerminalFolders

SpecTree == TreeInit /\ [][TreeNext]_vars

\* p is path or a folder below it
AtOrBelow(p, path) == Len(p) >= Len(path) /\ SubSeq(p, 1, Len(path)) = path

\* C38: find_terminal_folders returns exactly the folders at or below the given path that
\* hold no folder and at least one file; a folder with no entries is never returned.
C38_TerminalFolders ==
    ~IsNone(ftf_folders) =>
        /\ Val(ftf_folders) =
              { p \in DOMAIN os_listdir : /\ AtOrBelow(p, ftf_path)
                                          /\ os_listdir[p].dirs = {}
                                          /\ os_listdir[p].files >= 1 }
        /\ \A p \in Val(ftf_folders) :
              Cardinality(os_listdir[p].dirs) + os_listdir[p].files > 0

====
